---- MODULE Spec2Model ----
(***************************************************************************)
(* Model of the gateway reconciliation logic of submariner-io/cloud-prepare *)
(* (generic, RHOS, Azure and GCP gateway deployers, and the per-cloud      *)
(* OpenPorts / ClosePorts rule reconcilers).                                *)
(*                                                                         *)
(* The cluster and the cloud provider are the only state: every handler is *)
(* synchronous and single threaded, so one handler call is one action.     *)
(* Provider faults are an input of each call (the fault names the provider *)
(* call that returns an error).                                            *)
(***************************************************************************)
EXTENDS Integers, Sequences, FiniteSets, TLC

\* ---------------------------------------------------------------- bounds
NumNodes == 3
NumZones == 2
MaxGateways == 3
MaxFaultIdx == 2
NumPorts == 2
NumErrs == 2
CidrBits == 2
NumSubnets == 3

Nodes == 1..NumNodes
Zones == 1..NumZones
Ports == 1..NumPorts

\* The deployer implementations of the repository that are modelled.
Impls == {"genericV1", "generic", "rhosLabel", "azureTag", "azureDedicated", "azureMS", "gcp"}

\* The clouds whose OpenPorts / ClosePorts are modelled.
Clouds == {"gcp", "aws", "azure"}

VARIABLES
    impl,       \* the deployer implementation driving this cluster
    label,      \* node -> value of the label submariner.io/gateway ("none" = key absent)
    master,     \* node -> TRUE for a control-plane node (master taint / no worker role)
    nodeTag,    \* node -> TRUE when the node carries submariner-io-gateway-node=true
    portOpen,   \* node -> TRUE when the per-node gateway port / security group is applied
    extSG,      \* TRUE when the external (public ports) rule set exists
    ms,         \* zone -> number of gateway machine sets placed in the zone
    skuZones,   \* zones of the region that offer the gateway instance type
    op,         \* the last handler call: [name, gateways, ports, target, faulty, fired]
    ret,        \* what the last handler call returned: "nil", "error" (a provider call
                \* failed), "notfound", "invalid" (the provider rejected the request),
                \* "capacity" (insufficient nodes / zones), "panic"
    calls,      \* provider mutation calls issued by the last handler call
    tick,       \* flips on every handler call
    cloud,      \* the cloud whose port reconciler is driven
    group,      \* TRUE when the cluster's internal security group exists
    rules,      \* the unmanaged rules of the internal rule set
    fwPorts,    \* the managed internal rules ({} when none)
    publicIP,   \* zone -> TRUE when the public IP of the zone's gateway exists
    extRules,   \* rules that were put into the external rule set by hand
    peering,    \* the attempts of the last CreateVpcPeering call and what its retry helper returned
    subnetTag,  \* zone -> TRUE when the zone's public subnet carries the gateway tags
    pubRules,   \* the public firewall rules (GCP) that exist: "ingress", "egress"
    before,     \* the cloud as PrepareForSubmariner found it, when that was the last call
    race,       \* the Deploy invocations that run side by side against one cluster
    machineSets \* the names of the gateway machine sets of the RHOS cluster

deployVars == <<impl, label, master, nodeTag, portOpen, extSG, ms, skuZones>>
callVars == <<op, ret, calls, tick>>
portVars == <<cloud, group, rules, fwPorts, publicIP, extRules, peering>>
prepVars == <<subnetTag, pubRules, before, race, machineSets>>
vars == <<impl, label, master, nodeTag, portOpen, extSG, ms, skuZones, op, ret, calls, tick,
          cloud, group, rules, fwPorts, publicIP, extRules, peering, subnetTag, pubRules, before, race,
          machineSets>>

\* ------------------------------------------------------------- helpers
\* absent: the delete calls that met a resource that no longer exists.
NoCalls == [label |-> 0, unlabel |-> 0, port |-> 0, sg |-> 0, ms |-> 0, del |-> 0, absent |-> 0]

NoFault == <<"none", 0>>

\* No PrepareForSubmariner call was made.
NoBefore == [fwPorts |-> {}, rules |-> {}, extSG |-> FALSE, extRules |-> {}, ms |-> <<>>,
             subnetTag |-> <<>>, pubRules |-> {}, seen |-> FALSE]

\* The two processes that may call Deploy at the same time.
Procs == {1, 2}

\* No Deploy invocation runs side by side with another.  D: the desired count
\* of the invocations; had: the gateway nodes when they started; per process:
\* pc, where the invocation stands, delta, its gatewayNodesToDeploy, list, the
\* nodes of its listing not visited yet, ret, what it returned; gone: the nodes
\* deleted since; node and updates: the node of the last AddGWLabelOnNode call
\* and the node updates it issued; overlap: a step of one invocation was taken
\* while the other was under way.
NoRace == [D |-> 0, had |-> 0, pc |-> [i \in Procs |-> "idle"], delta |-> [i \in Procs |-> 0],
           list |-> [i \in Procs |-> <<>>], ret |-> [i \in Procs |-> "none"],
           gone |-> {}, node |-> 0, updates |-> 0, overlap |-> FALSE]

\* The state of a cloud that PrepareForSubmariner was never run against, and
\* of a cluster on which no two Deploy invocations overlap.
NoPrep ==
    /\ subnetTag = [z \in 1..NumZones |-> FALSE]
    /\ pubRules = {}
    /\ before = NoBefore
    /\ race = NoRace
    /\ machineSets = {}

\* No CreateVpcPeering call was made.  acceptPlan and routesPlan: what the
\* provider answers the attempts to accept the peering and to create its routes.
\* srcCidr and tgtCidr: the CIDR blocks of the two VPCs, <<address, prefix
\* length>>; request: the peering requests issued.
NoPeering == [acceptPlan |-> <<>>, routesPlan |-> <<>>, accept |-> <<>>, routes |-> <<>>, err |-> 0, wrap |-> "none",
              srcCidr |-> <<0, 0>>, tgtCidr |-> <<0, 0>>, request |-> 0,
              conns |-> 0, srcRoute |-> FALSE, tgtRoute |-> FALSE, routeDel |-> 0, connDel |-> 0]

RECURSIVE SumMS(_, _)
SumMS(m, z) == IF z > NumZones THEN 0 ELSE m[z] + SumMS(m, z + 1)

\* k8sIface.ListGatewayNodes: label selector submariner.io/gateway=true.
ListGatewayNodes(lbl) == {n \in Nodes : lbl[n] = "true"}

\* The number of resources carrying the gateway marker.
GwCount(lbl, m) == Cardinality(ListGatewayNodes(lbl)) + SumMS(m, 1)

\* k8sIface.AddGWLabelOnNode: labels[submariner.io/gateway] = "true".
AddGWLabelOnNode(lbl, n) == [lbl EXCEPT ![n] = "true"]

\* The outcome of a handler: the new cluster state, the returned value, the calls.
Result(lbl, po, sg, m, r, c) ==
    [label |-> lbl, portOpen |-> po, extSG |-> sg, ms |-> m, ret |-> r, calls |-> c]

\* reporter.Adapter.Error(err, ...) of the admiral library wraps err with
\* errors.Wrapf, which yields nil for a nil err; the adapter then either
\* returns that nil or dereferences it.  wrapNil is the outcome for a nil err.
StatusError(err, wrapNil) == IF err = "nil" THEN wrapNil ELSE err

\* What the provider answers the dry-run call of a validation: nil (a client
\* that does no dry runs), DryRunOperation (the call would have succeeded),
\* UnauthorizedOperation, or another error.
ProbeAnswer(fault) ==
    CASE fault = <<"dryrun", 1>> -> "DryRunOperation"
      [] fault = <<"unauthorized", 1>> -> "UnauthorizedOperation"
      [] fault = <<"validate", 1>> -> "other"
      [] OTHER -> "nil"

\* determinePermissionError as it would be if it took every answer that
\* names the operation for a grant.
determinePermissionErrorByCode(answer) ==
    CASE answer \in {"nil", "DryRunOperation", "UnauthorizedOperation"} -> "nil"
      [] OTHER -> "error"

\* determinePermissionError: nil and DryRunOperation mean that the permission
\* is there, UnauthorizedOperation yields the error "no permission to ...",
\* any other error is wrapped as "error while checking permissions for ...".
determinePermissionError(answer) ==
    CASE answer \in {"nil", "DryRunOperation"} -> "nil"
      [] answer = "UnauthorizedOperation" -> "noPermission"
      [] OTHER -> "error"

\* ------------------------------------------------ generic gateway deployer
\* The worker loop of gatewayDeployer.Deploy as it would be without the
\* isMasterNode check.
RECURSIVE GenericLoopAnyNode(_, _, _, _, _, _)
GenericLoopAnyNode(i, lbl, mst, delta, fault, n) ==
    IF i > NumNodes THEN [label |-> lbl, ret |-> "exhausted", n |-> n]
    ELSE IF lbl[i] # "none" THEN GenericLoopAnyNode(i + 1, lbl, mst, delta, fault, n)
    ELSE IF fault = <<"label", n + 1>> THEN [label |-> lbl, ret |-> "error", n |-> n + 1]
    ELSE IF delta - 1 <= 0 THEN [label |-> AddGWLabelOnNode(lbl, i), ret |-> "nil", n |-> n + 1]
    ELSE GenericLoopAnyNode(i + 1, AddGWLabelOnNode(lbl, i), mst, delta - 1, fault, n + 1)

\* The label loop of gatewayDeployer.Deploy over the listed non-gateway nodes.
\* i: index in the listing, n: AddGWLabelOnNode calls issued so far.
RECURSIVE GenericLoop(_, _, _, _, _, _)
GenericLoop(i, lbl, mst, delta, fault, n) ==
    IF i > NumNodes THEN [label |-> lbl, ret |-> "exhausted", n |-> n]
    ELSE IF lbl[i] # "none" \/ mst[i] THEN GenericLoop(i + 1, lbl, mst, delta, fault, n)
    ELSE IF fault = <<"label", n + 1>> THEN [label |-> lbl, ret |-> "error", n |-> n + 1]
    ELSE IF delta - 1 <= 0 THEN [label |-> AddGWLabelOnNode(lbl, i), ret |-> "nil", n |-> n + 1]
    ELSE GenericLoop(i + 1, AddGWLabelOnNode(lbl, i), mst, delta - 1, fault, n + 1)

\* gatewayDeployer.Deploy as it would be if a decreased count were executed:
\* one gateway node loses its label.
GenericDeployUnlabel(lbl, mst, po, sg, m, D, fault) ==
    IF fault = <<"listGW", 1>> THEN Result(lbl, po, sg, m, "error", NoCalls)
    ELSE LET cur == ListGatewayNodes(lbl)
             delta == D - Cardinality(cur) IN
         IF delta = 0 THEN Result(lbl, po, sg, m, "nil", NoCalls)
         ELSE IF delta < 0
              THEN Result([lbl EXCEPT ![CHOOSE n \in cur : TRUE] = "none"], po, sg, m, "nil",
                          [NoCalls EXCEPT !.unlabel = 1])
         ELSE IF fault = <<"listNodes", 1>> THEN Result(lbl, po, sg, m, "error", NoCalls)
         ELSE LET l == GenericLoop(1, lbl, mst, delta, fault, 0) IN
              Result(l.label, po, sg, m,
                     IF l.ret = "exhausted" THEN "capacity" ELSE l.ret,
                     [NoCalls EXCEPT !.label = l.n])

\* gatewayDeployer.Deploy as it would be without the return for a count that
\* is met already: the loop labels a worker before it looks at the count.
GenericDeployNoEqualReturn(lbl, mst, po, sg, m, D, fault) ==
    IF fault = <<"listGW", 1>> THEN Result(lbl, po, sg, m, "error", NoCalls)
    ELSE LET delta == D - Cardinality(ListGatewayNodes(lbl)) IN
         IF delta < 0 THEN Result(lbl, po, sg, m, "nil", NoCalls)
         ELSE IF fault = <<"listNodes", 1>> THEN Result(lbl, po, sg, m, "error", NoCalls)
         ELSE LET l == GenericLoop(1, lbl, mst, delta, fault, 0) IN
              Result(l.label, po, sg, m,
                     IF l.ret = "exhausted" THEN "capacity" ELSE l.ret,
                     [NoCalls EXCEPT !.label = l.n])

\* gatewayDeployer.Deploy (current version).
GenericDeploy(lbl, mst, po, sg, m, D, fault) ==
    IF fault = <<"listGW", 1>> THEN Result(lbl, po, sg, m, "error", NoCalls)
    ELSE LET delta == D - Cardinality(ListGatewayNodes(lbl)) IN
         IF delta = 0 THEN Result(lbl, po, sg, m, "nil", NoCalls)
         ELSE IF delta < 0 THEN Result(lbl, po, sg, m, "nil", NoCalls)
         ELSE IF fault = <<"listNodes", 1>> THEN Result(lbl, po, sg, m, "error", NoCalls)
         ELSE LET l == GenericLoop(1, lbl, mst, delta, fault, 0) IN
              Result(l.label, po, sg, m,
                     IF l.ret = "exhausted" THEN "capacity" ELSE l.ret,
                     [NoCalls EXCEPT !.label = l.n])

\* gatewayDeployer.Deploy (first version).
GenericDeployV1(lbl, mst, po, sg, m, D, fault) ==
    IF fault = <<"listGW", 1>> THEN Result(lbl, po, sg, m, "error", NoCalls)
    ELSE IF Cardinality(ListGatewayNodes(lbl)) >= D THEN Result(lbl, po, sg, m, "nil", NoCalls)
    ELSE IF fault = <<"listNodes", 1>> THEN Result(lbl, po, sg, m, "error", NoCalls)
    ELSE LET delta == D - Cardinality(ListGatewayNodes(lbl))
             l == GenericLoop(1, lbl, mst, delta, fault, 0) IN
         Result(l.label, po, sg, m,
                IF l.ret = "exhausted" THEN "nil" ELSE l.ret,
                [NoCalls EXCEPT !.label = l.n])

\* ------------------------------------------------------ rule set helpers
\* CloudInfo.checkIfSecurityGroupPresent (Azure): one Get of the group; the
\* answer is "err == nil", so a Get that fails (the fault <<"lookup", 1>>)
\* answers "not present" like a group that does not exist.
checkIfSecurityGroupPresent(sg, fault) == sg /\ fault # <<"lookup", 1>>

\* CloudInfo.createGWSecurityGroup (Azure): skip when the group is present,
\* otherwise one CreateOrUpdate call, which the fault <<"sg", 1>> fails.
CreateGWSecurityGroup(sg, fault) ==
    IF checkIfSecurityGroupPresent(sg, fault) THEN [extSG |-> TRUE, ret |-> "nil", n |-> 0]
    ELSE IF fault = <<"sg", 1>> THEN [extSG |-> sg, ret |-> "error", n |-> 1]
    ELSE [extSG |-> TRUE, ret |-> "nil", n |-> 1]

\* createGWSecurityGroup of the RHOS package: ensure the rule set exists.
RhosCreateGWSecurityGroup(sg, fault) ==
    IF sg THEN [extSG |-> TRUE, ret |-> "nil", n |-> 0]
    ELSE IF fault = <<"sg", 1>> THEN [extSG |-> FALSE, ret |-> "error", n |-> 1]
    ELSE [extSG |-> TRUE, ret |-> "nil", n |-> 1]

\* gcpCloud.openPorts for one rule: insert when absent, update when present.
GcpOpenPorts(present, fault) ==
    IF ~present
    THEN IF fault = <<"sg", 1>> THEN [present |-> FALSE, ret |-> "error", n |-> 1]
         ELSE [present |-> TRUE, ret |-> "nil", n |-> 1]
    ELSE IF fault = <<"sg", 1>> THEN [present |-> TRUE, ret |-> "error", n |-> 1]
         ELSE [present |-> TRUE, ret |-> "nil", n |-> 1]

\* -------------------------------------------------- RHOS gateway deployer
\* alreadyTagged of the RHOS label loop: the worker carries the label
\* submarinerGatewayNodeTag (submariner-io-gateway-node) with the value "true".
RhosAlreadyTagged(tag, n) == tag[n]

\* The worker loop of the RHOS ocpGatewayDeployer.Deploy (label mode).
\* n: AddGWLabelOnNode calls so far, p: openGatewayPort calls so far.
RECURSIVE RhosLoop(_, _, _, _, _, _, _, _, _)
RhosLoop(i, lbl, po, mst, tag, delta, fault, n, p) ==
    IF i > NumNodes THEN [label |-> lbl, portOpen |-> po, ret |-> "exhausted", n |-> n, p |-> p]
    ELSE IF mst[i] \/ RhosAlreadyTagged(tag, i) THEN RhosLoop(i + 1, lbl, po, mst, tag, delta, fault, n, p)
    ELSE IF fault = <<"label", n + 1>>
         THEN [label |-> lbl, portOpen |-> po, ret |-> "error", n |-> n + 1, p |-> p]
    ELSE IF fault = <<"port", p + 1>>
         THEN [label |-> AddGWLabelOnNode(lbl, i), portOpen |-> po, ret |-> "error", n |-> n + 1, p |-> p + 1]
    ELSE IF delta - 1 <= 0
         THEN [label |-> AddGWLabelOnNode(lbl, i), portOpen |-> [po EXCEPT ![i] = TRUE],
               ret |-> "nil", n |-> n + 1, p |-> p + 1]
    ELSE RhosLoop(i + 1, AddGWLabelOnNode(lbl, i), [po EXCEPT ![i] = TRUE], mst, tag, delta - 1, fault, n + 1, p + 1)

\* ocpGatewayDeployer.Deploy of the RHOS package (label mode).
RhosDeploy(lbl, mst, tag, po, sg, m, D, fault) ==
    LET g == RhosCreateGWSecurityGroup(sg, fault)
        c0 == [NoCalls EXCEPT !.sg = g.n]
        num == Cardinality(ListGatewayNodes(lbl))
    IN IF g.ret # "nil" THEN Result(lbl, po, g.extSG, m, "error", c0)
       ELSE IF fault = <<"listGW", 1>> THEN Result(lbl, po, TRUE, m, "error", c0)
       ELSE IF num = D THEN Result(lbl, po, TRUE, m, "nil", c0)
       ELSE IF num < D
            THEN IF fault = <<"listNodes", 1>> THEN Result(lbl, po, TRUE, m, "error", c0)
                 ELSE LET l == RhosLoop(1, lbl, po, mst, tag, D - num, fault, 0, 0) IN
                      Result(l.label, l.portOpen, TRUE, m,
                             IF l.ret = "exhausted" THEN "nil" ELSE l.ret,
                             [c0 EXCEPT !.label = l.n, !.port = l.p])
       ELSE Result(lbl, po, TRUE, m, "nil", c0)

\* ------------------------------------------------- Azure gateway deployer
\* The zone of a node and the region-prefixed form ("<region>-<zone>") that
\* the topology label of a node carries; a machine set carries the bare zone.
NodeZone(n) == ((n - 1) % NumZones) + 1
RegionZone(z) == NumZones + z

\* The orders in which a string set may hand out the zones of S.
ZoneOrders(S) == {q \in [1..Cardinality(S) -> S] : \A a, b \in 1..Cardinality(S) : a # b => q[a] # q[b]}

\* The zone loop as it would be if it returned after the first machine set,
\* whatever the number of gateways still to deploy.
ZoneLoopOnce(i, zs, m, delta, fault, n, fresh) ==
    IF i > Len(zs) THEN [ms |-> m, ret |-> "exhausted", n |-> n]
    ELSE IF fault = <<"ms", n + 1>> THEN [ms |-> m, ret |-> "error", n |-> n + 1]
    ELSE [ms |-> [m EXCEPT ![zs[i]] = IF fresh THEN @ + 1 ELSE 1], ret |-> "nil", n |-> n + 1]

\* The loop over the eligible zones (deployGateway per zone); n: msDeployer.Deploy
\* calls so far.  fresh: every call creates a machine set with a new name;
\* otherwise the name is derived from the zone (create or update).
RECURSIVE ZoneLoop(_, _, _, _, _, _, _)
ZoneLoop(i, zs, m, delta, fault, n, fresh) ==
    IF i > Len(zs) THEN [ms |-> m, ret |-> "exhausted", n |-> n]
    ELSE IF fault = <<"ms", n + 1>> THEN [ms |-> m, ret |-> "error", n |-> n + 1]
    ELSE LET m2 == [m EXCEPT ![zs[i]] = IF fresh THEN @ + 1 ELSE 1] IN
         IF delta - 1 <= 0 THEN [ms |-> m2, ret |-> "nil", n |-> n + 1]
         ELSE ZoneLoop(i + 1, zs, m2, delta - 1, fault, n + 1, fresh)

\* ocpGatewayDeployer.tagExistingNode (Azure, label mode): the worker loop.
\* alreadyTagged reads the label submariner-io-gateway-node.
RECURSIVE TagExistingNodeLoop(_, _, _, _, _, _, _, _, _, _)
TagExistingNodeLoop(i, lbl, po, mst, tag, delta, fault, n, p, wrapNil) ==
    IF i > NumNodes THEN [label |-> lbl, portOpen |-> po, ret |-> "nil", n |-> n, p |-> p]
    ELSE IF mst[i] \/ tag[i] THEN TagExistingNodeLoop(i + 1, lbl, po, mst, tag, delta, fault, n, p, wrapNil)
    ELSE IF fault = <<"label", n + 1>>
         THEN [label |-> lbl, portOpen |-> po, ret |-> "error", n |-> n + 1, p |-> p]
    ELSE IF fault = <<"port", p + 1>>
         THEN [label |-> AddGWLabelOnNode(lbl, i), portOpen |-> po, ret |-> "error", n |-> n + 1, p |-> p + 1]
    ELSE IF delta - 1 <= 0
         THEN [label |-> AddGWLabelOnNode(lbl, i), portOpen |-> [po EXCEPT ![i] = TRUE],
               ret |-> "nil", n |-> n + 1, p |-> p + 1]
    ELSE [label |-> AddGWLabelOnNode(lbl, i), portOpen |-> [po EXCEPT ![i] = TRUE],
          ret |-> StatusError("nil", wrapNil), n |-> n + 1, p |-> p + 1]

\* ocpGatewayDeployer.getAvailabilityZones (node based): the SKU zones whose
\* region-prefixed name is not the topology label of a gateway node.
GetAvailabilityZonesByNode(lbl, sku) ==
    {z \in sku : RegionZone(z) \notin {RegionZone(NodeZone(n)) : n \in ListGatewayNodes(lbl)}}

\* ocpGatewayDeployer.Deploy (Azure, node based).  dedicated: dedicatedGWNode.
AzureDeploy(lbl, mst, tag, po, sg, m, sku, D, fault, zs, wrapNil, dedicated) ==
    IF fault = <<"listGW", 1>> THEN Result(lbl, po, sg, m, "error", NoCalls)
    ELSE LET delta == D - Cardinality(ListGatewayNodes(lbl)) IN
    IF delta = 0 THEN Result(lbl, po, sg, m, "nil", NoCalls)
    ELSE LET g == CreateGWSecurityGroup(sg, fault)
             c0 == [NoCalls EXCEPT !.sg = g.n]
    IN IF g.ret # "nil" THEN Result(lbl, po, g.extSG, m, "error", c0)
       ELSE IF delta < 0 THEN Result(lbl, po, TRUE, m, "nil", c0)
       ELSE IF fault = <<"listZones", 1>> THEN Result(lbl, po, TRUE, m, "error", c0)
       ELSE IF GetAvailabilityZonesByNode(lbl, sku) = {}
            THEN Result(lbl, po, TRUE, m, StatusError("nil", wrapNil), c0)
       ELSE IF dedicated
            THEN LET l == ZoneLoop(1, zs, m, delta, fault, 0, FALSE) IN
                 Result(lbl, po, TRUE, l.ms,
                        IF l.ret = "exhausted" THEN StatusError("nil", wrapNil) ELSE l.ret,
                        [c0 EXCEPT !.ms = l.n])
       ELSE IF fault = <<"listNodes", 1>> THEN Result(lbl, po, TRUE, m, "error", c0)
       ELSE LET l == TagExistingNodeLoop(1, lbl, po, mst, tag, delta, fault, 0, 0, wrapNil) IN
            Result(l.label, l.portOpen, TRUE, m, l.ret, [c0 EXCEPT !.label = l.n, !.port = l.p])

\* ocpGatewayDeployer.getAvailabilityZones (machine-set based): the zones of the
\* existing machine sets are collected bare, and looked up region-prefixed.
GetAvailabilityZonesByMS(m, sku) ==
    {z \in sku : RegionZone(z) \notin {y \in Zones : m[y] > 0}}

\* prepareGWInterface for the gateway nodes in listing order: open the gateway
\* port of a node unless already done.  p: interface updates issued so far.
RECURSIVE PrepareGWInterfaces(_, _, _, _, _)
PrepareGWInterfaces(i, lbl, po, fault, p) ==
    IF i > NumNodes THEN [portOpen |-> po, ret |-> "nil", p |-> p]
    ELSE IF lbl[i] # "true" \/ po[i] THEN PrepareGWInterfaces(i + 1, lbl, po, fault, p)
    ELSE IF fault = <<"port", p + 1>> THEN [portOpen |-> po, ret |-> "error", p |-> p + 1]
    ELSE PrepareGWInterfaces(i + 1, lbl, [po EXCEPT ![i] = TRUE], fault, p + 1)

\* ocpGatewayDeployer.deployDedicatedGWNode (Azure, machine-set based).
DeployDedicatedGWNode(m, sku, delta, fault, zs, wrapNil) ==
    IF fault = <<"listZones", 1>> THEN [ms |-> m, ret |-> "error", n |-> 0]
    ELSE IF GetAvailabilityZonesByMS(m, sku) = {} THEN [ms |-> m, ret |-> StatusError("nil", wrapNil), n |-> 0]
    ELSE LET l == ZoneLoop(1, zs, m, delta, fault, 0, TRUE) IN
         [ms |-> l.ms, ret |-> IF l.ret = "exhausted" THEN StatusError("nil", wrapNil) ELSE l.ret, n |-> l.n]

\* ocpGatewayDeployer.Deploy (Azure, machine-set based).
AzureMSDeploy(lbl, po, sg, m, sku, D, fault, zs, wrapNil) ==
    IF D = 0 THEN Result(lbl, po, sg, m, "nil", NoCalls)
    ELSE IF fault = <<"listMS", 1>> \/ fault = <<"listGW", 1>> THEN Result(lbl, po, sg, m, "error", NoCalls)
    ELSE LET delta == D - SumMS(m, 1) - Cardinality(ListGatewayNodes(lbl))
             g == IF SumMS(m, 1) # 0 \/ delta # 0 THEN CreateGWSecurityGroup(sg, fault)
                  ELSE [extSG |-> sg, ret |-> "nil", n |-> 0]
             c0 == [NoCalls EXCEPT !.sg = g.n]
    IN IF g.ret # "nil" THEN Result(lbl, po, g.extSG, m, "error", c0)
       ELSE LET pr == PrepareGWInterfaces(1, lbl, po, fault, 0)
                c1 == [c0 EXCEPT !.port = pr.p]
       IN IF pr.ret # "nil" THEN Result(lbl, pr.portOpen, g.extSG, m, "error", c1)
          ELSE IF delta = 0 THEN Result(lbl, pr.portOpen, g.extSG, m, "nil", c1)
          ELSE IF delta < 0 THEN Result(lbl, pr.portOpen, g.extSG, m, "nil", c1)
          ELSE IF fault = <<"image", 1>> THEN Result(lbl, pr.portOpen, g.extSG, m, "error", c1)
          ELSE LET d == DeployDedicatedGWNode(m, sku, delta, fault, zs, wrapNil) IN
               Result(lbl, pr.portOpen, g.extSG, d.ms, d.ret, [c1 EXCEPT !.ms = d.n])

\* --------------------------------------------------- GCP gateway deployer
\* The zones of the region that host an instance named after a gateway.
ZonesWithSubmarinerGW(m, sku) == {z \in sku : m[z] > 0}

\* ocpGatewayDeployer.Deploy of the GCP package as it would be if a decreased
\* count were executed: the gateway of one zone is deleted.
GcpDeployScaleDown(lbl, po, sg, m, sku, D, fault, zs) ==
    LET g == GcpOpenPorts(sg, fault)
        c0 == [NoCalls EXCEPT !.sg = g.n]
        with == ZonesWithSubmarinerGW(m, sku)
        have == Cardinality(with)
    IN IF g.ret # "nil" THEN Result(lbl, po, g.present, m, "error", c0)
       ELSE IF fault = <<"listZones", 1>> THEN Result(lbl, po, TRUE, m, "error", c0)
       ELSE IF have = D THEN Result(lbl, po, TRUE, m, "nil", c0)
       ELSE IF have < D
            THEN LET l == ZoneLoop(1, zs, m, D - have, fault, 0, FALSE) IN
                 Result(lbl, po, TRUE, l.ms,
                        IF l.ret = "exhausted" THEN "nil" ELSE l.ret,
                        [c0 EXCEPT !.ms = l.n])
       ELSE Result(lbl, po, TRUE, [m EXCEPT ![CHOOSE z \in with : TRUE] = 0], "nil", [c0 EXCEPT !.del = 1])

\* ocpGatewayDeployer.Deploy of the GCP package (dedicated machine sets).
GcpDeploy(lbl, po, sg, m, sku, D, fault, zs) ==
    LET g == GcpOpenPorts(sg, fault)
        c0 == [NoCalls EXCEPT !.sg = g.n]
        have == Cardinality(ZonesWithSubmarinerGW(m, sku))
    IN IF g.ret # "nil" THEN Result(lbl, po, g.present, m, "error", c0)
       ELSE IF fault = <<"listZones", 1>> THEN Result(lbl, po, TRUE, m, "error", c0)
       ELSE IF have = D THEN Result(lbl, po, TRUE, m, "nil", c0)
       ELSE IF have < D
            THEN LET l == ZoneLoop(1, zs, m, D - have, fault, 0, FALSE) IN
                 Result(lbl, po, TRUE, l.ms,
                        IF l.ret = "exhausted" THEN "nil" ELSE l.ret,
                        [c0 EXCEPT !.ms = l.n])
       ELSE Result(lbl, po, TRUE, m, "nil", c0)

\* ----------------------------------------------------- generic Cleanup
\* k8sIface.RemoveGWLabelFromWorkerNodes as it would be if its selector named
\* the label value "true" instead of the label key.
RECURSIVE RemoveGWLabelFromTrueNodes(_, _, _, _)
RemoveGWLabelFromTrueNodes(i, lbl, fault, n) ==
    IF i > NumNodes THEN [label |-> lbl, ret |-> "nil", n |-> n]
    ELSE IF lbl[i] # "true" THEN RemoveGWLabelFromTrueNodes(i + 1, lbl, fault, n)
    ELSE IF fault = <<"unlabel", n + 1>> THEN [label |-> lbl, ret |-> "error", n |-> n + 1]
    ELSE RemoveGWLabelFromTrueNodes(i + 1, [lbl EXCEPT ![i] = "none"], fault, n + 1)

\* k8sIface.RemoveGWLabelFromWorkerNodes: list the nodes that have the label
\* key (any value) and remove the label from each; the first failure aborts.
RECURSIVE RemoveGWLabelFromWorkerNodes(_, _, _, _)
RemoveGWLabelFromWorkerNodes(i, lbl, fault, n) ==
    IF i > NumNodes THEN [label |-> lbl, ret |-> "nil", n |-> n]
    ELSE IF lbl[i] = "none" THEN RemoveGWLabelFromWorkerNodes(i + 1, lbl, fault, n)
    ELSE IF fault = <<"unlabel", n + 1>> THEN [label |-> lbl, ret |-> "error", n |-> n + 1]
    ELSE RemoveGWLabelFromWorkerNodes(i + 1, [lbl EXCEPT ![i] = "none"], fault, n + 1)

\* gatewayDeployer.Cleanup.
GenericCleanup(lbl, po, sg, m, fault) ==
    IF fault = <<"listGW", 1>> THEN Result(lbl, po, sg, m, "error", NoCalls)
    ELSE LET l == RemoveGWLabelFromWorkerNodes(1, lbl, fault, 0) IN
         Result(l.label, po, sg, m, l.ret, [NoCalls EXCEPT !.unlabel = l.n])

\* ------------------------------------------------------------ the cluster
LabelValues == {"none", "true", "other"}
LabelImpls == {"genericV1", "generic", "rhosLabel", "azureTag"}

\* The cluster a deployer is constructed against.  Nodes may already carry a
\* label; where the deployer configures a port per gateway node, the gateway
\* nodes present at construction were configured by an earlier Deploy.
InitDeploy ==
    /\ impl \in Impls
    /\ label \in [Nodes -> LabelValues]
    /\ master \in [Nodes -> BOOLEAN]
    /\ impl \notin LabelImpls => \A n \in Nodes : ~master[n]
    /\ impl \notin {"genericV1", "generic"} => \A n \in Nodes : label[n] # "other"
    /\ impl = "gcp" => \A n \in Nodes : label[n] = "none"
    \* The machine-set based deployer only counts the gateway nodes and visits
    \* them in listing order: they are the first nodes of the listing.
    /\ impl = "azureMS" => \A n \in Nodes : label[n] = "true" /\ n > 1 => label[n - 1] = "true"
    /\ nodeTag \in [Nodes -> BOOLEAN]
    /\ impl \notin {"azureTag", "rhosLabel"} => \A n \in Nodes : ~nodeTag[n]
    /\ \A n \in Nodes : nodeTag[n] => label[n] = "none" /\ ~master[n]
    /\ portOpen = [n \in Nodes |-> impl \in {"azureTag", "rhosLabel"} /\ label[n] = "true"]
    /\ extSG = \E n \in Nodes : portOpen[n]
    /\ ms = [z \in Zones |-> 0]
    /\ skuZones \in SUBSET Zones
    /\ impl \in LabelImpls => skuZones = Zones

InitCall ==
    /\ op = [name |-> "none", gateways |-> 0, ports |-> {}, target |-> 0, faulty |-> FALSE, fired |-> NoFault]
    /\ ret = "nil"
    /\ calls = NoCalls
    /\ tick = 0

Init ==
    /\ InitDeploy
    /\ InitCall
    /\ cloud = "none"
    /\ group = TRUE
    /\ rules = {}
    /\ fwPorts = {}
    /\ extRules = {}
    /\ peering = NoPeering
    /\ NoPrep
    /\ publicIP = [z \in Zones |-> FALSE]

\* Apply the outcome r of the handler call o.
Apply(r, o) ==
    /\ label' = r.label
    /\ portOpen' = r.portOpen
    /\ extSG' = r.extSG
    /\ ms' = r.ms
    /\ ret' = r.ret
    /\ calls' = r.calls
    /\ op' = o
    /\ tick' = 1 - tick
    /\ UNCHANGED <<impl, master, nodeTag, skuZones, portVars, prepVars>>

\* The mutation call that the fault of a handler call made fail, NoFault when
\* the call it names was not issued (or the fault names a listing or lookup):
\* the k-th call of a kind was issued when the handler issued at least k calls
\* of that kind.
FaultCount(c, kind) ==
    CASE kind = "label" -> c.label
      [] kind = "port" -> c.port
      [] kind \in {"sg", "write"} -> c.sg
      [] kind = "ms" -> c.ms
      [] OTHER -> 0

Fired(fault, c, r) ==
    IF fault[1] \in {"label", "port", "sg", "write", "ms"}
    THEN IF FaultCount(c, fault[1]) >= fault[2] THEN fault ELSE NoFault
    ELSE IF fault[1] = "novpc" THEN fault
    ELSE NoFault

\* A call is faulty when a provider call of it failed.
DeployOp(D, r, fault) ==
    [name |-> "Deploy", gateways |-> D, ports |-> {}, target |-> 0, faulty |-> r.ret = "error",
     fired |-> Fired(fault, r.calls, r.ret)]

NodeFaults == {NoFault, <<"listGW", 1>>, <<"listNodes", 1>>} \cup {<<"label", i>> : i \in 1..MaxFaultIdx}
PortFaults == {<<"sg", 1>>} \cup {<<"port", i>> : i \in 1..MaxFaultIdx}
ZoneFaults == {NoFault, <<"sg", 1>>, <<"listZones", 1>>} \cup {<<"ms", i>> : i \in 1..MaxFaultIdx}


DeployGenericV1 ==
    /\ impl = "genericV1"
    /\ \E D \in 0..MaxGateways, fault \in NodeFaults :
        LET r == GenericDeployV1(label, master, portOpen, extSG, ms, D, fault) IN
        /\ Apply(r, DeployOp(D, r, fault))

DeployGeneric ==
    /\ impl = "generic"
    /\ \E D \in 0..MaxGateways, fault \in NodeFaults :
        LET r == GenericDeploy(label, master, portOpen, extSG, ms, D, fault) IN
        /\ Apply(r, DeployOp(D, r, fault))

DeployRhos ==
    /\ impl = "rhosLabel"
    /\ \E D \in 0..MaxGateways, fault \in NodeFaults \cup PortFaults :
        LET r == RhosDeploy(label, master, nodeTag, portOpen, extSG, ms, D, fault) IN
        /\ Apply(r, DeployOp(D, r, fault))

\* The inputs <<fault, wrapNil>> of a call that may return through
\* reporter.Adapter.Error with a nil error: such a return ends the call, so the
\* outcome for a nil error is an input only of a call in which no fault fires.
FaultsAndWrapNil(faults) == {<<f, "nil">> : f \in faults} \cup {<<NoFault, "panic">>}

DeployAzureTag ==
    /\ impl = "azureTag"
    /\ \E D \in 0..MaxGateways, fw \in FaultsAndWrapNil(NodeFaults \cup PortFaults \cup {<<"listZones", 1>>}) :
        LET r == AzureDeploy(label, master, nodeTag, portOpen, extSG, ms, skuZones, D, fw[1], <<>>, fw[2], FALSE)
        IN Apply(r, DeployOp(D, r, fw[1]))

DeployAzureDedicated ==
    /\ impl = "azureDedicated"
    /\ \E zs \in ZoneOrders(GetAvailabilityZonesByNode(label, skuZones)) :
       \E D \in 0..MaxGateways, fw \in FaultsAndWrapNil(ZoneFaults \cup {<<"listGW", 1>>}) :
        LET r == AzureDeploy(label, master, nodeTag, portOpen, extSG, ms, skuZones, D, fw[1], zs, fw[2], TRUE)
        IN Apply(r, DeployOp(D, r, fw[1]))

AzureMSFaults == ZoneFaults \cup {<<"listGW", 1>>, <<"listMS", 1>>, <<"image", 1>>} \cup PortFaults

DeployAzureMS ==
    /\ impl = "azureMS"
    /\ \E zs \in ZoneOrders(GetAvailabilityZonesByMS(ms, skuZones)) :
       \E D \in 0..MaxGateways, fw \in FaultsAndWrapNil(AzureMSFaults) :
        LET r == AzureMSDeploy(label, portOpen, extSG, ms, skuZones, D, fw[1], zs, fw[2])
        IN Apply(r, DeployOp(D, r, fw[1]))

DeployGcp ==
    /\ impl = "gcp"
    /\ \E zs \in ZoneOrders(skuZones \ ZonesWithSubmarinerGW(ms, skuZones)) :
       \E D \in 0..MaxGateways, fault \in ZoneFaults :
        LET r == GcpDeploy(label, portOpen, extSG, ms, skuZones, D, fault, zs) IN
        /\ Apply(r, DeployOp(D, r, fault))

\* A Cleanup call; an error is returned only when its fault fired.
CleanupOp(r, fault) ==
    [name |-> "Cleanup", gateways |-> 0, ports |-> {}, target |-> 0, faulty |-> r.ret = "error",
     fired |-> IF r.ret = "error" THEN fault ELSE NoFault]

CleanupGeneric ==
    /\ impl \in {"genericV1", "generic"}
    /\ \E fault \in {NoFault, <<"listGW", 1>>} \cup {<<"unlabel", i>> : i \in 1..MaxFaultIdx} :
        LET r == GenericCleanup(label, portOpen, extSG, ms, fault) IN
        /\ Apply(r, CleanupOp(r, fault))

Next ==
    \/ DeployGenericV1
    \/ DeployGeneric
    \/ DeployRhos
    \/ DeployAzureTag
    \/ DeployAzureDedicated
    \/ DeployAzureMS
    \/ DeployGcp
    \/ CleanupGeneric

Spec == Init /\ [][Next]_vars

\* ------------------------------------------------- internal port rules
\* The outcome of a port or delete handler.
PortResult(rl, fw, sg, m, ip, r, c) ==
    [rules |-> rl, fwPorts |-> fw, extSG |-> sg, ms |-> m, publicIP |-> ip, ret |-> r, calls |-> c]

\* gcpCloud.openPorts for the internal ingress rule, which carries the ports fw
\* when it exists: insert the rule when the Get finds none, update it otherwise.
GcpOpenInternalPorts(fw, ports, fault) ==
    IF fault = <<"get", 1>> THEN [fwPorts |-> fw, ret |-> "error", n |-> 0]
    ELSE IF fault = <<"write", 1>> THEN [fwPorts |-> fw, ret |-> "error", n |-> 1]
    ELSE [fwPorts |-> ports, ret |-> "nil", n |-> 1]

\* gcpCloud.deleteFirewallRule that hands the NotFound answer on to the caller.
GcpDeleteFirewallRuleStrict(fw, fault) ==
    IF fault = <<"delete", 1>> THEN [fwPorts |-> fw, ret |-> "error", n |-> 1]
    ELSE IF fw = {} THEN [fwPorts |-> fw, ret |-> "notfound", n |-> 1]
    ELSE [fwPorts |-> {}, ret |-> "nil", n |-> 1]

\* gcpCloud.deleteFirewallRule: one DeleteFirewallRule call; the NotFound
\* answer for an absent rule counts as success.
GcpDeleteFirewallRule(fw, fault) ==
    IF fault = <<"delete", 1>> THEN [fwPorts |-> fw, ret |-> "error", n |-> 1]
    ELSE [fwPorts |-> {}, ret |-> "nil", n |-> 1]

\* The three permissions of port p: 1 between the workers, 2 from worker to
\* master nodes (held by the control plane group), 3 from master to worker nodes.
AwsRule(p, j) == 3 * (p - 1) + j
AwsRulePort(k) == ((k - 1) \div 3) + 1
AwsWorkerGroupRules(fw) == {k \in fw : k % 3 # 2}
AwsControlPlaneGroupRules(fw) == {k \in fw : k % 3 = 2}

\* The loop of awsCloud.OpenPorts as it would be if it went on with the
\* remaining permissions after a failed call and returned the error at the end.
RECURSIVE AwsAllowPortsContinue(_, _, _, _, _)
AwsAllowPortsContinue(k, ports, fw, fault, n) ==
    IF k > 3 * NumPorts
    THEN [fwPorts |-> fw, ret |-> IF fault[1] = "write" /\ fault[2] <= n THEN "error" ELSE "nil", n |-> n]
    ELSE IF AwsRulePort(k) \notin ports THEN AwsAllowPortsContinue(k + 1, ports, fw, fault, n)
    ELSE IF fault = <<"write", n + 1>> THEN AwsAllowPortsContinue(k + 1, ports, fw, fault, n + 1)
    ELSE AwsAllowPortsContinue(k + 1, ports, fw \cup {k}, fault, n + 1)

\* The loop of awsCloud.OpenPorts over the ports, allowPortInCluster issuing
\* three authorizeSecurityGroupIngress calls per port; a Duplicate answer counts
\* as success.  k: the permission at hand, n: Authorize calls issued so far.
RECURSIVE AwsAllowPorts(_, _, _, _, _)
AwsAllowPorts(k, ports, fw, fault, n) ==
    IF k > 3 * NumPorts THEN [fwPorts |-> fw, ret |-> "nil", n |-> n]
    ELSE IF AwsRulePort(k) \notin ports THEN AwsAllowPorts(k + 1, ports, fw, fault, n)
    ELSE IF fault = <<"write", n + 1>> THEN [fwPorts |-> fw, ret |-> "error", n |-> n + 1]
    ELSE AwsAllowPorts(k + 1, ports, fw \cup {k}, fault, n + 1)

\* awsCloud.getVpcID: the error of DescribeVpcs, or the not-found error when
\* the listing holds no VPC of the cluster's name (the fault <<"novpc", 1>>).
GetVpcID(fault) ==
    IF fault = <<"vpc", 1>> THEN "error"
    ELSE IF fault = <<"novpc", 1>> THEN "notfound"
    ELSE "nil"

\* awsCloud.OpenPorts as it would be if it went on without the VPC.
AwsOpenPortsWithoutVpc(grp, fw, ports, fault) ==
    IF fault = <<"vpc", 1>> THEN [fwPorts |-> fw, ret |-> "error", n |-> 0]
    ELSE IF ~grp THEN [fwPorts |-> fw, ret |-> "notfound", n |-> 0]
    ELSE IF determinePermissionError(ProbeAnswer(fault)) # "nil"
         THEN [fwPorts |-> fw, ret |-> determinePermissionError(ProbeAnswer(fault)), n |-> 0]
    ELSE AwsAllowPorts(1, ports, fw, fault, 0)

\* awsCloud.OpenPorts (and the port part of PrepareForSubmariner, which
\* starts with the same lookup): every error of getVpcID is returned.
AwsOpenPorts(grp, fw, ports, fault) ==
    IF GetVpcID(fault) # "nil" THEN [fwPorts |-> fw, ret |-> "error", n |-> 0]
    ELSE IF ~grp THEN [fwPorts |-> fw, ret |-> "notfound", n |-> 0]
    ELSE IF determinePermissionError(ProbeAnswer(fault)) # "nil"
         THEN [fwPorts |-> fw, ret |-> determinePermissionError(ProbeAnswer(fault)), n |-> 0]
    ELSE AwsAllowPorts(1, ports, fw, fault, 0)

\* awsCloud.revokePortsFromGroup that issues the Revoke call with whatever it
\* collected; the provider rejects a call that names no permission.
AwsRevokePortsFromGroupAlways(mine, fault, n) ==
    IF fault = <<"delete", n + 1>> THEN [left |-> mine, ret |-> "error", n |-> n + 1]
    ELSE IF mine = {} THEN [left |-> mine, ret |-> "invalid", n |-> n + 1]
    ELSE [left |-> {}, ret |-> "nil", n |-> n + 1]

\* awsCloud.revokePortsFromGroup: mine are the permissions of the group whose
\* description names the internal traffic; nothing to revoke is success
\* without a call.  n: Revoke calls issued so far.
AwsRevokePortsFromGroup(mine, fault, n) ==
    IF mine = {} THEN [left |-> {}, ret |-> "nil", n |-> n]
    ELSE IF fault = <<"delete", n + 1>> THEN [left |-> mine, ret |-> "error", n |-> n + 1]
    ELSE [left |-> {}, ret |-> "nil", n |-> n + 1]

\* awsCloud.ClosePorts (revokePortsInCluster: the worker group, then the
\* control plane group).
AwsClosePorts(grp, fw, fault) ==
    IF GetVpcID(fault) # "nil" THEN [fwPorts |-> fw, ret |-> "error", n |-> 0]
    ELSE IF ~grp THEN [fwPorts |-> fw, ret |-> "notfound", n |-> 0]
    ELSE IF determinePermissionError(ProbeAnswer(fault)) # "nil"
         THEN [fwPorts |-> fw, ret |-> determinePermissionError(ProbeAnswer(fault)), n |-> 0]
    ELSE IF fault = <<"get", 1>> THEN [fwPorts |-> fw, ret |-> "error", n |-> 0]
    ELSE LET w == AwsRevokePortsFromGroup(AwsWorkerGroupRules(fw), fault, 0) IN
         IF w.ret # "nil" THEN [fwPorts |-> fw, ret |-> w.ret, n |-> w.n]
         ELSE LET c == AwsRevokePortsFromGroup(AwsControlPlaneGroupRules(fw), fault, w.n) IN
              [fwPorts |-> w.left \cup c.left, ret |-> c.ret, n |-> c.n]

\* CloudInfo.openInternalPorts as it would be if it compared the rules
\* present with the requested ports and wrote the group when they differ.
AzureOpenInternalPortsByDiff(grp, fw, ports, fault) ==
    IF fault = <<"get", 1>> THEN [fwPorts |-> fw, ret |-> "error", n |-> 0]
    ELSE IF ~grp THEN [fwPorts |-> fw, ret |-> "notfound", n |-> 0]
    ELSE IF fw = ports THEN [fwPorts |-> fw, ret |-> "nil", n |-> 0]
    ELSE IF fault = <<"write", 1>> THEN [fwPorts |-> fw, ret |-> "error", n |-> 1]
    ELSE [fwPorts |-> ports, ret |-> "nil", n |-> 1]

\* CloudInfo.openInternalPorts (Azure): nothing to do when a rule with the
\* managed prefix is present; otherwise the rules of the ports are appended to
\* the existing rules in one CreateOrUpdate call.
AzureOpenInternalPorts(grp, fw, ports, fault) ==
    IF fault = <<"get", 1>> THEN [fwPorts |-> fw, ret |-> "error", n |-> 0]
    ELSE IF ~grp THEN [fwPorts |-> fw, ret |-> "notfound", n |-> 0]
    ELSE IF fw # {} THEN [fwPorts |-> fw, ret |-> "nil", n |-> 0]
    ELSE IF fault = <<"write", 1>> THEN [fwPorts |-> fw, ret |-> "error", n |-> 1]
    ELSE [fwPorts |-> ports, ret |-> "nil", n |-> 1]

\* CloudInfo.removeInternalFirewallRules as it would be if it matched the
\* prefix that the internal and the external rule names share.
AzureRemoveSubmarinerRules(grp, rl, fw, fault) ==
    IF fault = <<"get", 1>> THEN [rules |-> rl, fwPorts |-> fw, ret |-> "error", n |-> 0]
    ELSE IF ~grp THEN [rules |-> rl, fwPorts |-> fw, ret |-> "notfound", n |-> 0]
    ELSE IF fault = <<"write", 1>> THEN [rules |-> rl, fwPorts |-> fw, ret |-> "error", n |-> 1]
    ELSE [rules |-> rl \ {"unnamed", "external"}, fwPorts |-> {}, ret |-> "nil", n |-> 1]

\* CloudInfo.removeInternalFirewallRules (Azure): keep the named rules without
\* the managed prefix and write the group back in one CreateOrUpdate call.
AzureRemoveInternalFirewallRules(grp, rl, fw, fault) ==
    IF fault = <<"get", 1>> THEN [rules |-> rl, fwPorts |-> fw, ret |-> "error", n |-> 0]
    ELSE IF ~grp THEN [rules |-> rl, fwPorts |-> fw, ret |-> "notfound", n |-> 0]
    ELSE IF fault = <<"write", 1>> THEN [rules |-> rl, fwPorts |-> fw, ret |-> "error", n |-> 1]
    ELSE [rules |-> rl \ {"unnamed"}, fwPorts |-> {}, ret |-> "nil", n |-> 1]

\* ------------------------------------------------------ delete handlers
\* The attempts that retry.OnError grants the deletion of the gateway group.
DeleteRetrySteps == 30

\* The first delay of the backoff, in milliseconds; each further delay is
\* 1.2 times the delay before it.
BackoffDuration == 500

\* wait.Backoff.Step: the delay that follows attempt i.
RECURSIVE BackoffDelay(_)
BackoffDelay(i) == IF i <= 1 THEN BackoffDuration ELSE (BackoffDelay(i - 1) * 6) \div 5

\* What the provider answers the i-th DeleteSecurityGroup call of one
\* deletion: the fault <<"dependency", d>> makes the first d attempts answer
\* DependencyViolation, <<"dependencyThenError", d>> makes the attempt after
\* them fail with another error.
DeleteAnswer(fault, i) ==
    IF fault[1] \in {"dependency", "dependencyThenError"} /\ i <= fault[2] THEN "DependencyViolation"
    ELSE IF fault[1] = "dependencyThenError" /\ i = fault[2] + 1 THEN "error"
    ELSE IF fault = <<"delete", 1>> /\ i = 1 THEN "error"
    ELSE IF fault = <<"permNotFound", 1>> /\ i = 1 THEN "InvalidPermission.NotFound"
    ELSE "nil"

\* gatewayDeletionRetriable as it would be if every error were retried.
gatewayDeletionRetriableAlways(a) == a # "nil"

\* gatewayDeletionRetriable: only DependencyViolation is retried.
gatewayDeletionRetriable(a) == a = "DependencyViolation"

\* retry.OnError around DeleteSecurityGroup: an attempt that succeeds or fails
\* with an error that is not retriable ends the loop; a retriable error uses up
\* a step, and after the last step the error seen last is returned.  n: calls
\* so far.
RECURSIVE OnError(_, _, _, _)
OnError(steps, fault, n, lastErr) ==
    IF steps <= 0 THEN [err |-> lastErr, n |-> n]
    ELSE LET a == DeleteAnswer(fault, n + 1) IN
         IF a = "nil" THEN [err |-> "nil", n |-> n + 1]
         ELSE IF gatewayDeletionRetriable(a) THEN OnError(steps - 1, fault, n + 1, a)
         ELSE [err |-> a, n |-> n + 1]

\* awsCloud.deleteGatewaySG: success when the group is not found; otherwise
\* DeleteSecurityGroup under retry.OnError; the answer InvalidPermission.NotFound
\* counts as success.
AwsDeleteGatewaySG(sg, fault) ==
    IF fault = <<"describe", 1>> THEN [extSG |-> sg, ret |-> "error", n |-> 0]
    ELSE IF ~sg THEN [extSG |-> FALSE, ret |-> "nil", n |-> 0]
    ELSE LET l == OnError(DeleteRetrySteps, fault, 0, "nil") IN
         IF l.err = "nil" THEN [extSG |-> FALSE, ret |-> "nil", n |-> l.n]
         ELSE IF l.err = "InvalidPermission.NotFound" THEN [extSG |-> TRUE, ret |-> "nil", n |-> l.n]
         ELSE [extSG |-> TRUE, ret |-> "error", n |-> l.n]

\* MachineSetDeployer.Delete for the gateway machine set of zone z: a machine
\* set that does not exist is no error.
MachineSetDelete(m, z, fault) ==
    IF m[z] = 0 THEN [ms |-> m, ret |-> "nil", n |-> 1]
    ELSE IF fault = <<"delete", 1>> THEN [ms |-> m, ret |-> "error", n |-> 1]
    ELSE [ms |-> [m EXCEPT ![z] = 0], ret |-> "nil", n |-> 1]

\* CloudInfo.deletePublicIP as it would be if the deletion of an address that
\* does not exist were an error.
DeletePublicIPStrict(ip, z, fault) ==
    IF fault = <<"delete", 1>> THEN [publicIP |-> ip, ret |-> "error", n |-> 1]
    ELSE IF ~ip[z] THEN [publicIP |-> ip, ret |-> "notfound", n |-> 1]
    ELSE [publicIP |-> [ip EXCEPT ![z] = FALSE], ret |-> "nil", n |-> 1]

\* CloudInfo.deletePublicIP for the address of zone z: BeginDelete and the
\* poll; the resource manager answers the deletion of an absent address with
\* success, and every error is handed on.
DeletePublicIP(ip, z, fault) ==
    IF fault = <<"delete", 1>> THEN [publicIP |-> ip, ret |-> "error", n |-> 1]
    ELSE [publicIP |-> [ip EXCEPT ![z] = FALSE], ret |-> "nil", n |-> 1]

\* -------------------------------------------------- the port reconcilers
\* The rules of the internal rule set that the reconciler did not create: a
\* rule of another owner, a rule without a name, and a rule that bears the
\* external prefix.
UnmanagedRules == {"foreign", "unnamed", "external"}
PortLists == (SUBSET Ports) \ {{}}

\* The cloud a port reconciler is constructed against: no managed internal
\* rule exists yet.  The unmanaged rules vary where a handler rewrites the
\* rule set (Azure), the gateway group where it is a resource of its own (AWS),
\* the public addresses where gateways own one (Azure).
InitPorts ==
    /\ impl = "none"
    /\ label = [n \in Nodes |-> "none"]
    /\ master = [n \in Nodes |-> FALSE]
    /\ nodeTag = [n \in Nodes |-> FALSE]
    /\ portOpen = [n \in Nodes |-> FALSE]
    /\ skuZones = Zones
    /\ cloud \in Clouds
    /\ group \in BOOLEAN
    /\ cloud = "gcp" => group
    /\ rules \in SUBSET UnmanagedRules
    /\ cloud # "azure" => rules = UnmanagedRules
    /\ fwPorts = {}
    /\ extSG \in BOOLEAN
    /\ cloud # "aws" => ~extSG
    /\ extRules \in SUBSET {"internal"}
    /\ ~extSG => extRules = {}
    /\ peering = NoPeering
    /\ NoPrep
    /\ ms \in [Zones -> 0..1]
    /\ cloud # "gcp" => \A z \in Zones : ms[z] = 0
    /\ publicIP \in [Zones -> BOOLEAN]
    /\ cloud # "azure" => \A z \in Zones : ~publicIP[z]
    /\ InitCall

\* Apply the outcome r of the handler call o.  The rules of the gateway group
\* go with the group when DeleteSecurityGroup removes it.
ApplyPorts(r, o) ==
    /\ rules' = r.rules
    /\ fwPorts' = r.fwPorts
    /\ extSG' = r.extSG
    /\ extRules' = IF r.extSG THEN extRules ELSE {}
    /\ ms' = r.ms
    /\ publicIP' = r.publicIP
    /\ ret' = r.ret
    /\ calls' = r.calls
    /\ op' = o
    /\ tick' = 1 - tick
    /\ UNCHANGED <<impl, label, master, nodeTag, portOpen, skuZones, cloud, group, peering, prepVars>>

PortOp(name, ports, z, r, c, fault) ==
    [name |-> name, gateways |-> 0, ports |-> ports, target |-> z, faulty |-> r \in {"error", "noPermission"},
     fired |-> Fired(fault, c, r)]

\* The call of an AWS port handler: a fault that stands for the answer to the
\* dry-run call fired when the handler got as far as the call, that is, when
\* the group it is made on exists.
AwsPortOp(name, ports, r, c, fault) ==
    [PortOp(name, ports, 0, r, c, fault) EXCEPT
        !.fired = IF fault[1] \in {"dryrun", "unauthorized", "validate"} /\ r # "notfound" THEN fault ELSE @]

\* The outcome of a handler that touches only the internal rules.
RulesResult(rl, h, writes, deletes) ==
    PortResult(rl, h.fwPorts, extSG, ms, publicIP, h.ret, [NoCalls EXCEPT !.sg = writes, !.del = deletes])

OpenFaults == {NoFault, <<"get", 1>>, <<"vpc", 1>>, <<"validate", 1>>} \cup {<<"write", i>> : i \in 1..MaxFaultIdx}
CloseFaults == {NoFault, <<"get", 1>>, <<"vpc", 1>>, <<"validate", 1>>, <<"write", 1>>}
                  \cup {<<"delete", i>> : i \in 1..MaxFaultIdx}

OpenPortsGcp ==
    /\ cloud = "gcp"
    /\ \E ports \in PortLists, fault \in OpenFaults :
        LET h == GcpOpenInternalPorts(fwPorts, ports, fault) IN
        ApplyPorts(RulesResult(rules, h, h.n, 0), PortOp("OpenPorts", ports, 0, h.ret, [NoCalls EXCEPT !.sg = h.n], fault))

OpenPortsAws ==
    /\ cloud = "aws"
    /\ \E ports \in PortLists, fault \in OpenFaults \cup {<<"novpc", 1>>, <<"dryrun", 1>>, <<"unauthorized", 1>>} :
        LET h == AwsOpenPorts(group, fwPorts, ports, fault) IN
        ApplyPorts(RulesResult(rules, h, h.n, 0), AwsPortOp("OpenPorts", ports, h.ret, [NoCalls EXCEPT !.sg = h.n], fault))

OpenPortsAzure ==
    /\ cloud = "azure"
    /\ \E ports \in PortLists, fault \in OpenFaults :
        LET h == AzureOpenInternalPorts(group, fwPorts, ports, fault) IN
        ApplyPorts(RulesResult(rules, h, h.n, 0), PortOp("OpenPorts", ports, 0, h.ret, [NoCalls EXCEPT !.sg = h.n], fault))

ClosePortsGcp ==
    /\ cloud = "gcp"
    /\ \E fault \in CloseFaults :
        LET h == GcpDeleteFirewallRule(fwPorts, fault) IN
        ApplyPorts(RulesResult(rules, h, 0, h.n), PortOp("ClosePorts", {}, 0, h.ret, [NoCalls EXCEPT !.del = h.n], fault))

ClosePortsAws ==
    /\ cloud = "aws"
    /\ \E fault \in CloseFaults \cup {<<"novpc", 1>>, <<"dryrun", 1>>, <<"unauthorized", 1>>} :
        LET h == AwsClosePorts(group, fwPorts, fault) IN
        ApplyPorts(RulesResult(rules, h, 0, h.n), AwsPortOp("ClosePorts", {}, h.ret, [NoCalls EXCEPT !.del = h.n], fault))

ClosePortsAzure ==
    /\ cloud = "azure"
    /\ \E fault \in CloseFaults :
        LET h == AzureRemoveInternalFirewallRules(group, rules, fwPorts, fault) IN
        ApplyPorts(RulesResult(h.rules, h, h.n, 0), PortOp("ClosePorts", {}, 0, h.ret, [NoCalls EXCEPT !.sg = h.n], fault))

DeleteGatewaySGFaults ==
    {NoFault, <<"describe", 1>>, <<"delete", 1>>, <<"permNotFound", 1>>,
     <<"dependency", 1>>, <<"dependency", DeleteRetrySteps - 1>>, <<"dependency", DeleteRetrySteps>>,
     <<"dependencyThenError", 1>>}

\* The call of deleteGatewaySG: the fault of a DeleteSecurityGroup answer fired
\* when the call got as far as the deletion.
DeleteGatewaySGOp(r, n, fault) ==
    [PortOp("DeleteGatewaySG", {}, 0, r, [NoCalls EXCEPT !.del = n], fault) EXCEPT
        !.fired = IF n >= 1 /\ DeleteAnswer(fault, 1) # "nil" THEN fault ELSE @]

DeleteGatewaySG ==
    /\ cloud = "aws"
    /\ \E fault \in DeleteGatewaySGFaults :
        LET h == AwsDeleteGatewaySG(extSG, fault) IN
        ApplyPorts(PortResult(rules, fwPorts, h.extSG, ms, publicIP, h.ret, [NoCalls EXCEPT !.del = h.n]),
                   DeleteGatewaySGOp(h.ret, h.n, fault))

DeleteMachineSet ==
    /\ cloud \in Clouds
    /\ \E z \in Zones, fault \in {NoFault, <<"delete", 1>>} :
        LET h == MachineSetDelete(ms, z, fault) IN
        ApplyPorts(PortResult(rules, fwPorts, extSG, h.ms, publicIP, h.ret, [NoCalls EXCEPT !.del = h.n]),
                   PortOp("DeleteMachineSet", {}, z, h.ret, [NoCalls EXCEPT !.del = h.n], fault))

DeletePublicIPAddress ==
    /\ cloud = "azure"
    /\ \E z \in Zones, fault \in {NoFault, <<"delete", 1>>} :
        LET h == DeletePublicIP(publicIP, z, fault) IN
        ApplyPorts(PortResult(rules, fwPorts, extSG, ms, h.publicIP, h.ret, [NoCalls EXCEPT !.del = h.n]),
                   PortOp("DeletePublicIP", {}, z, h.ret, [NoCalls EXCEPT !.del = h.n], fault))

NextPorts ==
    \/ OpenPortsGcp
    \/ OpenPortsAws
    \/ OpenPortsAzure
    \/ ClosePortsGcp
    \/ ClosePortsAws
    \/ ClosePortsAzure
    \/ DeleteGatewaySG
    \/ DeleteMachineSet
    \/ DeletePublicIPAddress

SpecPorts == InitPorts /\ [][NextPorts]_vars

\* ---------------------------------------------------------------- Cleanup
\* The outcome of a Cleanup handler.
CleanupResult(lbl, po, sg, m, ip, r, c) ==
    [label |-> lbl, portOpen |-> po, extSG |-> sg, ms |-> m, publicIP |-> ip, ret |-> r, calls |-> c]

\* The fault of the provider's delete call when the Cleanup fault names this call.
DeleteFault(fault, kind, k) == IF fault = <<kind, k>> THEN <<"delete", 1>> ELSE NoFault

\* The loop of the GCP ocpGatewayDeployer.Cleanup over the zones of the region:
\* deleteGateway for a zone that lists an instance named after a gateway; the
\* first failure ends the loop.  n: msDeployer.Delete calls issued so far.
RECURSIVE GcpCleanupZones(_, _, _, _, _)
GcpCleanupZones(z, m, sku, fault, n) ==
    IF z > NumZones THEN [ms |-> m, ret |-> "nil", n |-> n]
    ELSE IF z \notin ZonesWithSubmarinerGW(m, sku) THEN GcpCleanupZones(z + 1, m, sku, fault, n)
    ELSE LET d == MachineSetDelete(m, z, DeleteFault(fault, "msdel", n + 1)) IN
         IF d.ret # "nil" THEN [ms |-> m, ret |-> d.ret, n |-> n + 1]
         ELSE GcpCleanupZones(z + 1, d.ms, sku, fault, n + 1)

\* ocpGatewayDeployer.Cleanup of the GCP package: deleteExternalFWRules, then
\* ListZones, then the loop over the zones.
GcpCleanup(lbl, po, sg, m, ip, sku, fault) ==
    LET f == GcpDeleteFirewallRule(IF sg THEN {1} ELSE {}, DeleteFault(fault, "fwdel", 1))
        c0 == [NoCalls EXCEPT !.del = f.n, !.absent = IF ~sg /\ f.ret = "nil" THEN 1 ELSE 0]
    IN IF f.ret # "nil" THEN CleanupResult(lbl, po, sg, m, ip, f.ret, c0)
       ELSE IF fault = <<"listZones", 1>> THEN CleanupResult(lbl, po, FALSE, m, ip, "error", c0)
       ELSE LET l == GcpCleanupZones(1, m, sku, fault, 0) IN
            CleanupResult(lbl, po, FALSE, l.ms, ip, l.ret, [c0 EXCEPT !.del = @ + l.n])

\* CloudInfo.cleanupGWInterface, the loop over the interfaces that reference
\* the gateway security group: the group and the public address are taken off
\* the interface in one update.  p: interface updates issued so far.
RECURSIVE DetachGWInterfaces(_, _, _, _)
DetachGWInterfaces(i, po, fault, p) ==
    IF i > NumNodes THEN [portOpen |-> po, ret |-> "nil", p |-> p]
    ELSE IF ~po[i] THEN DetachGWInterfaces(i + 1, po, fault, p)
    ELSE IF fault = <<"detach", p + 1>> THEN [portOpen |-> po, ret |-> "error", p |-> p + 1]
    ELSE DetachGWInterfaces(i + 1, [po EXCEPT ![i] = FALSE], fault, p + 1)

\* CloudInfo.cleanupGWInterface: nothing to do when the gateway security group
\* is not found; otherwise detach it from the interfaces and delete it.
CleanupGWInterface(po, sg, fault) ==
    IF ~checkIfSecurityGroupPresent(sg, fault)
    THEN [portOpen |-> po, extSG |-> sg, ret |-> "nil", p |-> 0, n |-> 0]
    ELSE IF fault = <<"getSG", 1>> THEN [portOpen |-> po, extSG |-> TRUE, ret |-> "error", p |-> 0, n |-> 0]
    ELSE LET l == DetachGWInterfaces(1, po, fault, 0) IN
         IF l.ret # "nil" THEN [portOpen |-> l.portOpen, extSG |-> TRUE, ret |-> l.ret, p |-> l.p, n |-> 0]
         ELSE IF fault = <<"sgdel", 1>>
              THEN [portOpen |-> l.portOpen, extSG |-> TRUE, ret |-> "error", p |-> l.p, n |-> 1]
         ELSE [portOpen |-> l.portOpen, extSG |-> FALSE, ret |-> "nil", p |-> l.p, n |-> 1]

\* ocpGatewayDeployer.deleteGateway (Azure), the loop over the listed machine
\* sets: DeleteByName, then deletePublicIP of the machine set's address; the
\* first failure ends the loop.  n: DeleteByName calls, q: deletePublicIP calls,
\* a: deletePublicIP calls that met no address.
RECURSIVE DeleteGatewayMachineSets(_, _, _, _, _, _, _)
DeleteGatewayMachineSets(z, m, ip, fault, n, q, a) ==
    IF z > NumZones THEN [ms |-> m, publicIP |-> ip, ret |-> "nil", n |-> n, q |-> q, a |-> a]
    ELSE IF m[z] = 0 THEN DeleteGatewayMachineSets(z + 1, m, ip, fault, n, q, a)
    ELSE LET d == MachineSetDelete(m, z, DeleteFault(fault, "msdel", n + 1)) IN
         IF d.ret # "nil" THEN [ms |-> m, publicIP |-> ip, ret |-> d.ret, n |-> n + 1, q |-> q, a |-> a]
         ELSE LET e == DeletePublicIP(ip, z, DeleteFault(fault, "ipdel", q + 1)) IN
              IF e.ret # "nil"
              THEN [ms |-> d.ms, publicIP |-> ip, ret |-> e.ret, n |-> n + 1, q |-> q + 1, a |-> a]
              ELSE DeleteGatewayMachineSets(z + 1, d.ms, e.publicIP, fault, n + 1, q + 1,
                                            IF ip[z] THEN a ELSE a + 1)

\* ocpGatewayDeployer.deleteGateway (Azure), the loop over the gateway nodes
\* that are no machine-set nodes: RemoveGWLabelFromWorkerNode, then
\* deletePublicIP of the node's address, which exists when the node's interface
\* was prepared (had).  u: label removals, q: deletePublicIP calls so far.
RECURSIVE DeleteGatewayNodes(_, _, _, _, _, _, _)
DeleteGatewayNodes(i, lbl, had, fault, u, q, a) ==
    IF i > NumNodes THEN [label |-> lbl, ret |-> "nil", u |-> u, q |-> q, a |-> a]
    ELSE IF lbl[i] # "true" THEN DeleteGatewayNodes(i + 1, lbl, had, fault, u, q, a)
    ELSE IF fault = <<"unlabel", u + 1>> THEN [label |-> lbl, ret |-> "error", u |-> u + 1, q |-> q, a |-> a]
    ELSE LET l2 == [lbl EXCEPT ![i] = "none"] IN
         IF fault = <<"ipdel", q + 1>> THEN [label |-> l2, ret |-> "error", u |-> u + 1, q |-> q + 1, a |-> a]
         ELSE DeleteGatewayNodes(i + 1, l2, had, fault, u + 1, q + 1, IF had[i] THEN a ELSE a + 1)

\* ocpGatewayDeployer.Cleanup (Azure, machine-set based): cleanupGWInterface,
\* then deleteGateway.
AzureMSCleanup(lbl, po, sg, m, ip, fault) ==
    LET g == CleanupGWInterface(po, sg, fault)
        c0 == [NoCalls EXCEPT !.port = g.p, !.del = g.n]
    IN IF g.ret # "nil" THEN CleanupResult(lbl, g.portOpen, g.extSG, m, ip, g.ret, c0)
       ELSE IF fault = <<"listMS", 1>> THEN CleanupResult(lbl, g.portOpen, g.extSG, m, ip, "error", c0)
       ELSE LET d == DeleteGatewayMachineSets(1, m, ip, fault, 0, 0, 0)
                c1 == [c0 EXCEPT !.del = @ + d.n + d.q, !.absent = d.a]
            IN IF d.ret # "nil" THEN CleanupResult(lbl, g.portOpen, g.extSG, d.ms, d.publicIP, d.ret, c1)
               ELSE IF fault = <<"listGW", 1>>
                    THEN CleanupResult(lbl, g.portOpen, g.extSG, d.ms, d.publicIP, "error", c1)
               ELSE LET e == DeleteGatewayNodes(1, lbl, po, fault, 0, d.q, d.a) IN
                    CleanupResult(e.label, g.portOpen, g.extSG, d.ms, d.publicIP, e.ret,
                                  [c0 EXCEPT !.del = @ + d.n + e.q, !.absent = e.a, !.unlabel = e.u])

\* The cluster and cloud a Cleanup is called against, as earlier Deploy calls
\* left them: the GCP deployer opens the external rule before it deploys a
\* gateway; on Azure a machine set has its public address, and an interface
\* that references the gateway security group belongs to a gateway node.
InitCleanup ==
    /\ impl \in {"generic", "gcp", "azureMS"}
    /\ label \in [Nodes -> LabelValues]
    /\ impl # "generic" => \A n \in Nodes : label[n] # "other"
    /\ impl = "gcp" => \A n \in Nodes : label[n] = "none"
    /\ master = [n \in Nodes |-> FALSE]
    /\ nodeTag = [n \in Nodes |-> FALSE]
    /\ portOpen \in [Nodes -> BOOLEAN]
    /\ \A n \in Nodes : portOpen[n] => impl = "azureMS" /\ label[n] = "true"
    /\ ms \in [Zones -> 0..1]
    /\ impl = "generic" => \A z \in Zones : ms[z] = 0
    /\ extSG \in BOOLEAN
    /\ impl = "generic" => ~extSG
    /\ (\E z \in Zones : ms[z] > 0) \/ (\E n \in Nodes : portOpen[n]) => extSG
    /\ publicIP = [z \in Zones |-> impl = "azureMS" /\ ms[z] > 0]
    /\ skuZones = Zones
    /\ cloud = "none"
    /\ group = TRUE
    /\ rules = {}
    /\ fwPorts = {}
    /\ extRules = {}
    /\ peering = NoPeering
    /\ NoPrep
    /\ InitCall

\* Apply the outcome r of the Cleanup call o.
ApplyCleanup(r, o) ==
    /\ label' = r.label
    /\ portOpen' = r.portOpen
    /\ extSG' = r.extSG
    /\ ms' = r.ms
    /\ publicIP' = r.publicIP
    /\ ret' = r.ret
    /\ calls' = r.calls
    /\ op' = o
    /\ tick' = 1 - tick
    /\ UNCHANGED <<impl, master, nodeTag, skuZones, cloud, group, rules, fwPorts, extRules, peering, prepVars>>

\* A gateway resource is removed by hand, behind the deployer's back: a machine
\* set, a public address, the external rule set (when no interface references
\* it) or the gateway label of a node.
RemoveOutOfBand ==
    /\ impl \in {"generic", "gcp", "azureMS"}
    /\ \/ \E z \in Zones : /\ ms[z] > 0
                           /\ ms' = [ms EXCEPT ![z] = 0]
                           /\ UNCHANGED <<label, extSG, publicIP>>
       \/ \E z \in Zones : /\ publicIP[z]
                           /\ publicIP' = [publicIP EXCEPT ![z] = FALSE]
                           /\ UNCHANGED <<label, extSG, ms>>
       \/ /\ extSG
          /\ \A n \in Nodes : ~portOpen[n]
          /\ extSG' = FALSE
          /\ UNCHANGED <<label, ms, publicIP>>
       \/ \E n \in Nodes : /\ label[n] # "none"
                           /\ ~portOpen[n]
                           /\ label' = [label EXCEPT ![n] = "none"]
                           /\ UNCHANGED <<extSG, ms, publicIP>>
    /\ op' = [name |-> "RemoveOutOfBand", gateways |-> 0, ports |-> {}, target |-> 0, faulty |-> FALSE,
              fired |-> NoFault]
    /\ ret' = "nil"
    /\ calls' = NoCalls
    /\ tick' = 1 - tick
    /\ UNCHANGED <<impl, master, nodeTag, portOpen, skuZones, cloud, group, rules, fwPorts, extRules, peering, prepVars>>

GcpCleanupFaults == {NoFault, <<"fwdel", 1>>, <<"listZones", 1>>} \cup {<<"msdel", i>> : i \in 1..MaxFaultIdx}

CleanupGcp ==
    /\ impl = "gcp"
    /\ \E fault \in GcpCleanupFaults :
        LET r == GcpCleanup(label, portOpen, extSG, ms, publicIP, skuZones, fault) IN
        ApplyCleanup(r, CleanupOp(r, fault))

AzureCleanupFaults ==
    {NoFault, <<"lookup", 1>>, <<"getSG", 1>>, <<"sgdel", 1>>, <<"listMS", 1>>, <<"listGW", 1>>}
        \cup {<<k, i>> : k \in {"detach", "msdel", "ipdel", "unlabel"}, i \in 1..MaxFaultIdx}

\* The Azure Cleanup starts with the lookup of the gateway security group:
\* the fault of that lookup fires in every call, whatever the call returns.
AzureCleanupOp(r, fault) ==
    IF fault = <<"lookup", 1>>
    THEN [CleanupOp(r, fault) EXCEPT !.faulty = TRUE, !.fired = fault]
    ELSE CleanupOp(r, fault)

CleanupAzureMS ==
    /\ impl = "azureMS"
    /\ \E fault \in AzureCleanupFaults :
        LET r == AzureMSCleanup(label, portOpen, extSG, ms, publicIP, fault) IN
        ApplyCleanup(r, AzureCleanupOp(r, fault))

CleanupGenericNodes ==
    /\ impl = "generic"
    /\ \E fault \in {NoFault, <<"listGW", 1>>} \cup {<<"unlabel", i>> : i \in 1..MaxFaultIdx} :
        LET g == GenericCleanup(label, portOpen, extSG, ms, fault)
            r == CleanupResult(g.label, g.portOpen, g.extSG, g.ms, publicIP, g.ret, g.calls)
        IN ApplyCleanup(r, CleanupOp(r, fault))

NextCleanup ==
    \/ CleanupGcp
    \/ CleanupAzureMS
    \/ CleanupGenericNodes
    \/ RemoveOutOfBand

SpecCleanup == InitCleanup /\ [][NextCleanup]_vars

\* ------------------------------------------------------------ VPC peering
\* The attempts that runWithRetries grants an operation.
attempts == 3

\* The errors an attempt may return; 0 is nil.
Outcomes == 0..NumErrs

\* What the attempts of an operation answer, one after the other.
Plans == [1..attempts -> Outcomes]

\* runWithRetries as it would be if its loop ended one attempt early.
RECURSIVE RunOneLess(_, _, _, _)
RunOneLess(plan, retries, made, err) ==
    IF retries <= 1 THEN [err |-> err, made |-> made]
    ELSE LET e == plan[Len(made) + 1] IN
         IF e # 0 THEN RunOneLess(plan, retries - 1, Append(made, e), e)
         ELSE [err |-> 0, made |-> Append(made, e)]

\* The loop of runWithRetries: an attempt that fails uses up a retry, an
\* attempt that succeeds returns nil at once; err is the error of the attempt
\* made last, made the outcomes of the attempts so far.
RECURSIVE RunLoop(_, _, _, _)
RunLoop(plan, retries, made, err) ==
    IF retries <= 0 THEN [err |-> err, made |-> made]
    ELSE LET e == plan[Len(made) + 1] IN
         IF e # 0 THEN RunLoop(plan, retries - 1, Append(made, e), e)
         ELSE [err |-> 0, made |-> Append(made, e)]

\* runWithRetries as it would be if it returned the error of its first attempt.
runWithRetriesFirstError(plan) ==
    LET r == RunLoop(plan, attempts, <<>>, 0) IN
    [err |-> IF r.err = 0 THEN 0 ELSE r.made[1], made |-> r.made]

\* runWithRetries for an operation whose attempts answer as plan says.
runWithRetries(plan) == RunLoop(plan, attempts, <<>>, 0)

\* 2^n
RECURSIVE Pow2(_)
Pow2(n) == IF n = 0 THEN 1 ELSE 2 * Pow2(n - 1)

\* The CIDR blocks of an address space of CidrBits bits, as DescribeVpcs
\* reports them: an address and a prefix length.
CidrBlocks == (0..(Pow2(CidrBits) - 1)) \X (0..CidrBits)

\* IP.Mask: the address ip with all but its first len bits cleared.
Mask(ip, len) == (ip \div Pow2(CidrBits - len)) * Pow2(CidrBits - len)

\* net.ParseCIDR: the network of the block, its address masked.
ParseCIDR(c) == [IP |-> Mask(c[1], c[2]), len |-> c[2]]

\* IPNet.Contains
Contains(n, ip) == Mask(ip, n.len) = n.IP

\* validatePeeringPrerequisites as it would be if it compared the two CIDR
\* strings instead of the networks.
checkVpcOverlapByString(a, b) == a = b

\* checkVpcOverlap: either network contains the address of the other.
checkVpcOverlap(a, b) ==
    LET netA == ParseCIDR(a)
        netB == ParseCIDR(b)
    IN Contains(netA, netB.IP) \/ Contains(netB, netA.IP)

\* awsCloud.validatePeeringPrerequisites: the error of either getVpc (the
\* fault <<"validate", 1>>), or the error for overlapping CIDR blocks.
validatePeeringPrerequisites(fault, src, tgt) ==
    IF fault = <<"validate", 1>> THEN "error"
    ELSE IF checkVpcOverlap(src, tgt) THEN "overlap"
    ELSE "nil"

\* awsCloud.createAWSPeering as it would be if the error of the acceptance
\* were dropped and the routes created all the same.
createAWSPeeringIgnoringAccept(fault, p) ==
    LET acceptPlan == p.acceptPlan
        routesPlan == p.routesPlan
        none == [NoPeering EXCEPT !.acceptPlan = acceptPlan, !.routesPlan = routesPlan,
                                  !.srcCidr = p.srcCidr, !.tgtCidr = p.tgtCidr]
        sent == [none EXCEPT !.request = 1]
    IN
    IF validatePeeringPrerequisites(fault, p.srcCidr, p.tgtCidr) # "nil"
    THEN [peering |-> [none EXCEPT !.wrap = "validate"], ret |-> "error"]
    ELSE IF fault[1] \in {"srcVpc", "tgtVpc"}
    THEN [peering |-> [none EXCEPT !.wrap = fault[1]], ret |-> "error"]
    ELSE IF fault[1] = "request"
    THEN [peering |-> [sent EXCEPT !.wrap = fault[1]], ret |-> "error"]
    ELSE LET a == runWithRetries(acceptPlan)
             r == runWithRetries(routesPlan) IN
         IF r.err # 0
         THEN [peering |-> [sent EXCEPT !.accept = a.made, !.routes = r.made, !.err = r.err, !.wrap = "routes"],
               ret |-> "error"]
         ELSE [peering |-> [sent EXCEPT !.accept = a.made, !.routes = r.made], ret |-> "nil"]

\* awsCloud.createAWSPeering: the prerequisites, the two VPC lookups and the
\* peering request, each of which ends the call when it fails; then the
\* acceptance and the routes, each under runWithRetries and each wrapped with a
\* message of its own when the helper returns an error.
createAWSPeering(fault, p) ==
    LET acceptPlan == p.acceptPlan
        routesPlan == p.routesPlan
        none == [NoPeering EXCEPT !.acceptPlan = acceptPlan, !.routesPlan = routesPlan,
                                  !.srcCidr = p.srcCidr, !.tgtCidr = p.tgtCidr]
        sent == [none EXCEPT !.request = 1]
    IN
    IF validatePeeringPrerequisites(fault, p.srcCidr, p.tgtCidr) # "nil"
    THEN [peering |-> [none EXCEPT !.wrap = "validate"], ret |-> "error"]
    ELSE IF fault[1] \in {"srcVpc", "tgtVpc"}
    THEN [peering |-> [none EXCEPT !.wrap = fault[1]], ret |-> "error"]
    ELSE IF fault[1] = "request"
    THEN [peering |-> [sent EXCEPT !.wrap = fault[1]], ret |-> "error"]
    ELSE LET a == runWithRetries(acceptPlan) IN
         IF a.err # 0
         THEN [peering |-> [sent EXCEPT !.accept = a.made, !.err = a.err, !.wrap = "accept"], ret |-> "error"]
         ELSE LET r == runWithRetries(routesPlan) IN
              IF r.err # 0
              THEN [peering |-> [sent EXCEPT !.accept = a.made, !.routes = r.made, !.err = r.err, !.wrap = "routes"],
                    ret |-> "error"]
              ELSE [peering |-> [sent EXCEPT !.accept = a.made, !.routes = r.made], ret |-> "nil"]

\* Two AWS clouds whose VPCs are to be peered, and what the provider is going
\* to answer the attempts; nothing else is touched.
InitPeering ==
    /\ impl = "none"
    /\ label = [n \in Nodes |-> "none"]
    /\ master = [n \in Nodes |-> FALSE]
    /\ nodeTag = [n \in Nodes |-> FALSE]
    /\ portOpen = [n \in Nodes |-> FALSE]
    /\ skuZones = Zones
    /\ cloud = "aws"
    /\ group = TRUE
    /\ rules = {}
    /\ fwPorts = {}
    /\ extSG = FALSE
    /\ extRules = {}
    /\ ms = [z \in Zones |-> 0]
    /\ publicIP = [z \in Zones |-> FALSE]
    /\ peering \in {[NoPeering EXCEPT !.acceptPlan = a, !.routesPlan = r,
                                      !.srcCidr = <<0, 1>>, !.tgtCidr = <<Pow2(CidrBits - 1), 1>>] : a \in Plans, r \in Plans}
    /\ NoPrep
    /\ InitCall

PeeringFaults == {NoFault} \cup {<<k, 1>> : k \in {"validate", "srcVpc", "tgtVpc", "request"}}

CreateVpcPeering ==
    /\ cloud = "aws"
    /\ \E fault \in PeeringFaults :
        LET r == createAWSPeering(fault, peering) IN
        /\ peering' = r.peering
        /\ ret' = r.ret
        /\ op' = [name |-> "CreateVpcPeering", gateways |-> 0, ports |-> {}, target |-> 0,
                  faulty |-> r.ret = "error", fired |-> fault]
        /\ calls' = NoCalls
        /\ tick' = 1 - tick
    /\ UNCHANGED <<deployVars, cloud, group, rules, fwPorts, publicIP, extRules, prepVars>>

NextPeering == CreateVpcPeering

SpecPeering == InitPeering /\ [][NextPeering]_vars

\* Two AWS clouds with whatever CIDR blocks their VPCs have; the provider
\* answers every attempt of an operation alike.
InitOverlap ==
    /\ impl = "none"
    /\ label = [n \in Nodes |-> "none"]
    /\ master = [n \in Nodes |-> FALSE]
    /\ nodeTag = [n \in Nodes |-> FALSE]
    /\ portOpen = [n \in Nodes |-> FALSE]
    /\ skuZones = Zones
    /\ cloud = "aws"
    /\ group = TRUE
    /\ rules = {}
    /\ fwPorts = {}
    /\ extSG = FALSE
    /\ extRules = {}
    /\ ms = [z \in Zones |-> 0]
    /\ publicIP = [z \in Zones |-> FALSE]
    /\ \E a, r \in {[i \in 1..attempts |-> e] : e \in Outcomes}, src, tgt \in CidrBlocks :
          peering = [NoPeering EXCEPT !.acceptPlan = a, !.routesPlan = r, !.srcCidr = src, !.tgtCidr = tgt]
    /\ NoPrep
    /\ InitCall

SpecOverlap == InitOverlap /\ [][NextPeering]_vars

\* ------------------------------------------------- VPC peering cleanup
\* awsCloud.deleteVpcPeeringRoutes: the route table of the source VPC and the
\* deletion of its route, then the same for the target VPC; the first call
\* that fails ends it.  The provider answers the deletion of a route that does
\* not exist with an error.  n: DeleteRoute calls.
deleteVpcPeeringRoutes(p, fault) ==
    IF fault = <<"srcTable", 1>> THEN [srcRoute |-> p.srcRoute, tgtRoute |-> p.tgtRoute, ret |-> "error", n |-> 0]
    ELSE IF fault = <<"routeDel", 1>> \/ ~p.srcRoute
    THEN [srcRoute |-> p.srcRoute, tgtRoute |-> p.tgtRoute, ret |-> "error", n |-> 1]
    ELSE IF fault = <<"tgtTable", 1>> THEN [srcRoute |-> FALSE, tgtRoute |-> p.tgtRoute, ret |-> "error", n |-> 1]
    ELSE IF fault = <<"routeDel", 2>> \/ ~p.tgtRoute
    THEN [srcRoute |-> FALSE, tgtRoute |-> p.tgtRoute, ret |-> "error", n |-> 2]
    ELSE [srcRoute |-> FALSE, tgtRoute |-> FALSE, ret |-> "nil", n |-> 2]

\* awsCloud.cleanupVpcPeering as it would be if it took the first connection
\* of however many the lookup returns.
cleanupVpcPeeringFirstOfMany(fault, p) ==
    LET q == [p EXCEPT !.routeDel = 0, !.connDel = 0, !.wrap = "none"] IN
    IF fault[1] \in {"srcVpc", "tgtVpc"} THEN [peering |-> [q EXCEPT !.wrap = fault[1]], ret |-> "error"]
    ELSE IF fault = <<"describe", 1>> \/ p.conns = 0
    THEN [peering |-> [q EXCEPT !.wrap = "lookup"], ret |-> "error"]
    ELSE LET r == deleteVpcPeeringRoutes(p, fault)
             q2 == [q EXCEPT !.srcRoute = r.srcRoute, !.tgtRoute = r.tgtRoute, !.routeDel = r.n]
         IN IF r.ret # "nil" THEN [peering |-> [q2 EXCEPT !.wrap = "routes"], ret |-> "error"]
            ELSE IF fault = <<"connDel", 1>>
                 THEN [peering |-> [q2 EXCEPT !.connDel = 1, !.wrap = "connection"], ret |-> "error"]
            ELSE [peering |-> [q2 EXCEPT !.connDel = 1, !.conns = @ - 1], ret |-> "nil"]

\* awsCloud.cleanupVpcPeering: the two VPC lookups, the lookup of the peering
\* connection, which must return exactly one connection, the deletion of the
\* two routes and then the deletion of the connection; each step that fails
\* ends the call.  conns: the connections that match the lookup.
cleanupVpcPeering(fault, p) ==
    LET q == [p EXCEPT !.routeDel = 0, !.connDel = 0, !.wrap = "none"] IN
    IF fault[1] \in {"srcVpc", "tgtVpc"} THEN [peering |-> [q EXCEPT !.wrap = fault[1]], ret |-> "error"]
    ELSE IF fault = <<"describe", 1>> \/ p.conns # 1
    THEN [peering |-> [q EXCEPT !.wrap = "lookup"], ret |-> "error"]
    ELSE LET r == deleteVpcPeeringRoutes(p, fault)
             q2 == [q EXCEPT !.srcRoute = r.srcRoute, !.tgtRoute = r.tgtRoute, !.routeDel = r.n]
         IN IF r.ret # "nil" THEN [peering |-> [q2 EXCEPT !.wrap = "routes"], ret |-> "error"]
            ELSE IF fault = <<"connDel", 1>>
                 THEN [peering |-> [q2 EXCEPT !.connDel = 1, !.wrap = "connection"], ret |-> "error"]
            ELSE [peering |-> [q2 EXCEPT !.connDel = 1, !.conns = @ - 1], ret |-> "nil"]

\* The connections that the lookup may match.
MaxConns == 2

\* Two peered AWS clouds as CreateVpcPeering calls, some of them failed, may
\* have left them: connections that match the lookup, and the route of either
\* VPC.
InitPeeringCleanup ==
    /\ impl = "none"
    /\ label = [n \in Nodes |-> "none"]
    /\ master = [n \in Nodes |-> FALSE]
    /\ nodeTag = [n \in Nodes |-> FALSE]
    /\ portOpen = [n \in Nodes |-> FALSE]
    /\ skuZones = Zones
    /\ cloud = "aws"
    /\ group = TRUE
    /\ rules = {}
    /\ fwPorts = {}
    /\ extSG = FALSE
    /\ extRules = {}
    /\ ms = [z \in Zones |-> 0]
    /\ publicIP = [z \in Zones |-> FALSE]
    /\ \E c \in 0..MaxConns, s, t \in BOOLEAN :
          peering = [NoPeering EXCEPT !.conns = c, !.srcRoute = s, !.tgtRoute = t]
    /\ NoPrep
    /\ InitCall

PeeringCleanupFaults ==
    {NoFault} \cup {<<k, 1>> : k \in {"srcVpc", "tgtVpc", "describe", "srcTable", "tgtTable", "routeDel", "connDel"}}
        \cup {<<"routeDel", 2>>}

CleanupVpcPeering ==
    /\ cloud = "aws"
    /\ \E fault \in PeeringCleanupFaults :
        LET r == cleanupVpcPeering(fault, peering) IN
        /\ peering' = r.peering
        /\ ret' = r.ret
        /\ op' = [name |-> "CleanupVpcPeering", gateways |-> 0, ports |-> {}, target |-> 0,
                  faulty |-> r.ret = "error", fired |-> fault]
        /\ calls' = NoCalls
        /\ tick' = 1 - tick
    /\ UNCHANGED <<deployVars, cloud, group, rules, fwPorts, publicIP, extRules, prepVars>>

\* The routes of a peering are created by hand, or by a CreateVpcPeering of
\* another process.
PutRoutesByHand ==
    /\ cloud = "aws"
    /\ ~peering.srcRoute \/ ~peering.tgtRoute
    /\ peering' = [peering EXCEPT !.srcRoute = TRUE, !.tgtRoute = TRUE, !.routeDel = 0, !.connDel = 0, !.wrap = "none"]
    /\ op' = [name |-> "none", gateways |-> 0, ports |-> {}, target |-> 0, faulty |-> FALSE, fired |-> NoFault]
    /\ ret' = "nil"
    /\ calls' = NoCalls
    /\ tick' = 1 - tick
    /\ UNCHANGED <<deployVars, cloud, group, rules, fwPorts, publicIP, extRules, prepVars>>

NextPeeringCleanup ==
    \/ CleanupVpcPeering
    \/ PutRoutesByHand

SpecPeeringCleanup == InitPeeringCleanup /\ [][NextPeeringCleanup]_vars

\* --------------------------------- PrepareForSubmariner and its reverse
\* The outcome of PrepareForSubmariner or CleanupAfterSubmariner.
PrepResult(fw, sg, tags, m, pub, r, c) ==
    [fwPorts |-> fw, extSG |-> sg, subnetTag |-> tags, ms |-> m, pubRules |-> pub, ret |-> r, calls |-> c]

\* awsCloud.createGatewaySG with one public port: the group is created when
\* the lookup finds none, and the rule of the port is authorized in either
\* case.  The fault <<"sg", 1>> fails the lookup or the creation, <<"sg", 2>>
\* the authorization.  n: the calls issued.
AwsCreateGatewaySG(sg, fault) ==
    LET made == IF sg THEN 0 ELSE 1 IN
    IF fault = <<"sg", 1>> THEN [extSG |-> sg, ret |-> "error", n |-> made]
    ELSE IF fault = <<"sg", 2>> THEN [extSG |-> TRUE, ret |-> "error", n |-> made + 1]
    ELSE [extSG |-> TRUE, ret |-> "nil", n |-> made + 1]

\* awsCloud.getTaggedPublicSubnet: the first subnet of the listing that
\* carries the gateway tag, 0 (nil) when there is none.
TaggedPublicSubnet(tags) ==
    IF \E z \in Zones : tags[z] THEN CHOOSE z \in Zones : tags[z] /\ \A y \in Zones : tags[y] => z <= y
    ELSE 0

\* awsCloud.revokePortsInCluster as it would be if it stopped after the
\* worker group.
AwsRevokePortsInWorkerGroup(grp, fw, fault) ==
    IF ~grp THEN [fwPorts |-> fw, ret |-> "notfound", n |-> 0]
    ELSE LET w == AwsRevokePortsFromGroup(AwsWorkerGroupRules(fw), fault, 0) IN
         [fwPorts |-> IF w.ret = "nil" THEN AwsControlPlaneGroupRules(fw) ELSE fw, ret |-> w.ret, n |-> w.n]

\* awsCloud.revokePortsInCluster: the worker group, then the control plane group.
AwsRevokePortsInCluster(grp, fw, fault) ==
    IF ~grp THEN [fwPorts |-> fw, ret |-> "notfound", n |-> 0]
    ELSE LET w == AwsRevokePortsFromGroup(AwsWorkerGroupRules(fw), fault, 0) IN
         IF w.ret # "nil" THEN [fwPorts |-> fw, ret |-> w.ret, n |-> w.n]
         ELSE LET c == AwsRevokePortsFromGroup(AwsControlPlaneGroupRules(fw), fault, w.n) IN
              [fwPorts |-> w.left \cup c.left, ret |-> c.ret, n |-> c.n]

\* awsCloud.PrepareForSubmariner: the internal ports, the gateway group, the
\* tag on a public subnet unless one is tagged already, and the gateway
\* machine set of that subnet.  calls.label counts the CreateTags calls.
AwsPrepareForSubmariner(grp, fw, sg, tags, m, ports, fault) ==
    IF GetVpcID(fault) # "nil" THEN PrepResult(fw, sg, tags, m, {}, "error", NoCalls)
    ELSE IF ~grp THEN PrepResult(fw, sg, tags, m, {}, "notfound", NoCalls)
    ELSE LET a == AwsAllowPorts(1, ports, fw, fault, 0) IN
         IF a.ret # "nil" THEN PrepResult(a.fwPorts, sg, tags, m, {}, a.ret, [NoCalls EXCEPT !.sg = a.n])
         ELSE LET g == AwsCreateGatewaySG(sg, fault)
                  c == [NoCalls EXCEPT !.sg = a.n + g.n]
                  t == TaggedPublicSubnet(tags)
                  z == IF t = 0 THEN 1 ELSE t
                  tg == [tags EXCEPT ![z] = TRUE]
              IN IF g.ret # "nil" THEN PrepResult(a.fwPorts, g.extSG, tags, m, {}, g.ret, c)
                 ELSE IF fault = <<"subnets", 1>> THEN PrepResult(a.fwPorts, TRUE, tags, m, {}, "error", c)
                 ELSE IF t = 0 /\ fault = <<"nosubnet", 1>> THEN PrepResult(a.fwPorts, TRUE, tags, m, {}, "notfound", c)
                 ELSE IF t = 0 /\ fault = <<"tag", 1>>
                      THEN PrepResult(a.fwPorts, TRUE, tags, m, {}, "error", [c EXCEPT !.label = 1])
                 ELSE IF fault = <<"deploy", 1>>
                      THEN PrepResult(a.fwPorts, TRUE, tg, m, {}, "error",
                                      [c EXCEPT !.label = IF t = 0 THEN 1 ELSE 0, !.ms = 1])
                 ELSE PrepResult(a.fwPorts, TRUE, tg, [m EXCEPT ![z] = 1], {}, "nil",
                                 [c EXCEPT !.label = IF t = 0 THEN 1 ELSE 0, !.ms = 1])

\* awsCloud.CleanupAfterSubmariner: the gateway machine set and the tags of
\* the tagged public subnet when there is one, the internal permissions, the
\* gateway group.  calls.unlabel counts the DeleteTags calls.
AwsCleanupAfterSubmariner(grp, fw, sg, tags, m, fault) ==
    IF GetVpcID(fault) # "nil" \/ fault = <<"subnets", 1>> THEN PrepResult(fw, sg, tags, m, {}, "error", NoCalls)
    ELSE LET t == TaggedPublicSubnet(tags)
             d == IF t = 0 THEN [ms |-> m, ret |-> "nil", n |-> 0]
                  ELSE MachineSetDelete(m, t, DeleteFault(fault, "msdel", 1))
             u == IF t = 0 THEN 0 ELSE 1
             tg == IF t = 0 THEN tags ELSE [tags EXCEPT ![t] = FALSE]
         IN IF d.ret # "nil" THEN PrepResult(fw, sg, tags, m, {}, d.ret, [NoCalls EXCEPT !.del = d.n])
            ELSE IF t # 0 /\ fault = <<"untag", 1>>
                 THEN PrepResult(fw, sg, tags, d.ms, {}, "error", [NoCalls EXCEPT !.del = d.n, !.unlabel = 1])
            ELSE LET r == AwsRevokePortsInCluster(grp, fw, fault) IN
                 IF r.ret # "nil"
                 THEN PrepResult(r.fwPorts, sg, tg, d.ms, {}, r.ret, [NoCalls EXCEPT !.del = d.n + r.n, !.unlabel = u])
                 ELSE LET g == AwsDeleteGatewaySG(sg, DeleteFault(fault, "sgdel", 1)) IN
                      PrepResult(r.fwPorts, g.extSG, tg, d.ms, {}, g.ret,
                                 [NoCalls EXCEPT !.del = d.n + r.n + g.n, !.unlabel = u])

\* One turn of the loop of gcpCloud.openPorts: insert the rule when the Get
\* finds none, update it otherwise.  n: the write calls issued before.
GcpOpenRule(present, fault, n) ==
    IF fault = <<"get", n + 1>> THEN [present |-> present, ret |-> "error", n |-> n]
    ELSE IF fault = <<"write", n + 1>> THEN [present |-> present, ret |-> "error", n |-> n + 1]
    ELSE [present |-> TRUE, ret |-> "nil", n |-> n + 1]

\* gcpCloud.PrepareForSubmariner: the ingress and the egress rule of the
\* public ports, then the internal ingress rule, which carries the ports.
GcpPrepareForSubmariner(pub, fw, ports, fault) ==
    LET i == GcpOpenRule("ingress" \in pub, fault, 0)
        p1 == IF i.ret = "nil" THEN pub \cup {"ingress"} ELSE pub
        e == GcpOpenRule("egress" \in pub, fault, 1)
        p2 == IF e.ret = "nil" THEN p1 \cup {"egress"} ELSE p1
        h == GcpOpenRule(fw # {}, fault, 2)
    IN IF i.ret # "nil" THEN [pubRules |-> p1, fwPorts |-> fw, ret |-> i.ret, n |-> i.n]
       ELSE IF e.ret # "nil" THEN [pubRules |-> p2, fwPorts |-> fw, ret |-> e.ret, n |-> e.n]
       ELSE IF h.ret # "nil" THEN [pubRules |-> p2, fwPorts |-> fw, ret |-> h.ret, n |-> h.n]
       ELSE [pubRules |-> p2, fwPorts |-> ports, ret |-> "nil", n |-> h.n]

\* gcpCloud.CleanupAfterSubmariner: deleteFirewallRule for the ingress, the
\* egress and the internal rule, stopping at the first error.
GcpCleanupAfterSubmariner(pub, fw, fault) ==
    IF fault = <<"delete", 1>> THEN [pubRules |-> pub, fwPorts |-> fw, ret |-> "error", n |-> 1]
    ELSE IF fault = <<"delete", 2>> THEN [pubRules |-> pub \ {"ingress"}, fwPorts |-> fw, ret |-> "error", n |-> 2]
    ELSE LET h == GcpDeleteFirewallRule(fw, DeleteFault(fault, "delete", 3)) IN
         [pubRules |-> {}, fwPorts |-> h.fwPorts, ret |-> h.ret, n |-> 2 + h.n]

\* A cloud that PrepareForSubmariner is run against for the first time: it
\* holds no managed resource, and rules of other owners in the cluster's groups.
InitPrepare ==
    /\ impl = "none"
    /\ label = [n \in Nodes |-> "none"]
    /\ master = [n \in Nodes |-> FALSE]
    /\ nodeTag = [n \in Nodes |-> FALSE]
    /\ portOpen = [n \in Nodes |-> FALSE]
    /\ skuZones = Zones
    /\ cloud \in {"gcp", "aws"}
    /\ group = TRUE
    /\ rules = UnmanagedRules
    /\ fwPorts = {}
    /\ extSG = FALSE
    /\ extRules = {}
    /\ peering = NoPeering
    /\ ms = [z \in Zones |-> 0]
    /\ publicIP = [z \in Zones |-> FALSE]
    /\ NoPrep
    /\ InitCall

\* The parts of the cloud that PrepareForSubmariner and its reverse act on.
Snapshot ==
    [fwPorts |-> fwPorts, rules |-> rules, extSG |-> extSG, extRules |-> extRules, ms |-> ms,
     subnetTag |-> subnetTag, pubRules |-> pubRules, seen |-> TRUE]

\* Apply the outcome r of the call o of PrepareForSubmariner or its reverse;
\* DeleteSecurityGroup takes the rules of the gateway group with it.
ApplyPrepare(r, o, b) ==
    /\ fwPorts' = r.fwPorts
    /\ extSG' = r.extSG
    /\ extRules' = IF r.extSG THEN extRules ELSE {}
    /\ subnetTag' = r.subnetTag
    /\ ms' = r.ms
    /\ pubRules' = r.pubRules
    /\ before' = b
    /\ race' = race
    /\ machineSets' = machineSets
    /\ ret' = r.ret
    /\ calls' = r.calls
    /\ op' = o
    /\ tick' = 1 - tick
    /\ UNCHANGED <<impl, label, master, nodeTag, portOpen, skuZones, cloud, group, rules, publicIP, peering>>

PrepareOp(name, ports, r, fault) ==
    [name |-> name, gateways |-> 0, ports |-> ports, target |-> 0, faulty |-> r = "error",
     fired |-> IF r = "nil" THEN NoFault ELSE fault]

\* The internal ports a PrepareForSubmariner call is given: the first k ports.
InternalPortLists == {1..k : k \in Ports}

AwsPrepareFaults ==
    {NoFault, <<"vpc", 1>>, <<"sg", 1>>, <<"sg", 2>>, <<"subnets", 1>>, <<"nosubnet", 1>>, <<"tag", 1>>,
     <<"deploy", 1>>} \cup {<<"write", i>> : i \in 1..MaxFaultIdx}
AwsCleanupFaults ==
    {NoFault, <<"vpc", 1>>, <<"subnets", 1>>, <<"msdel", 1>>, <<"untag", 1>>, <<"sgdel", 1>>}
        \cup {<<"delete", i>> : i \in 1..MaxFaultIdx}

PrepareForSubmarinerAws ==
    /\ cloud = "aws"
    /\ \E ports \in InternalPortLists, fault \in AwsPrepareFaults :
        LET r == AwsPrepareForSubmariner(group, fwPorts, extSG, subnetTag, ms, ports, fault) IN
        ApplyPrepare(r, PrepareOp("Prepare", ports, r.ret, fault), Snapshot)

CleanupAfterSubmarinerAws ==
    /\ cloud = "aws"
    /\ \E fault \in AwsCleanupFaults :
        LET r == AwsCleanupAfterSubmariner(group, fwPorts, extSG, subnetTag, ms, fault) IN
        ApplyPrepare(r, PrepareOp("Cleanup", {}, r.ret, fault), NoBefore)

PrepareForSubmarinerGcp ==
    /\ cloud = "gcp"
    /\ \E ports \in InternalPortLists, fault \in {NoFault} \cup {<<k, i>> : k \in {"get", "write"}, i \in 1..3} :
        LET h == GcpPrepareForSubmariner(pubRules, fwPorts, ports, fault) IN
        ApplyPrepare(PrepResult(h.fwPorts, extSG, subnetTag, ms, h.pubRules, h.ret, [NoCalls EXCEPT !.sg = h.n]),
                     PrepareOp("Prepare", ports, h.ret, fault), Snapshot)

CleanupAfterSubmarinerGcp ==
    /\ cloud = "gcp"
    /\ \E fault \in {NoFault} \cup {<<"delete", i>> : i \in 1..3} :
        LET h == GcpCleanupAfterSubmariner(pubRules, fwPorts, fault) IN
        ApplyPrepare(PrepResult(h.fwPorts, extSG, subnetTag, ms, h.pubRules, h.ret, [NoCalls EXCEPT !.del = h.n]),
                     PrepareOp("Cleanup", {}, h.ret, fault), NoBefore)

\* Somebody adds a rule of their own to the gateway group.
PutRuleByHand ==
    /\ cloud = "aws" /\ extSG /\ extRules = {}
    /\ extRules' = {"internal"}
    /\ op' = [op EXCEPT !.name = "none"]
    /\ tick' = 1 - tick
    /\ UNCHANGED <<deployVars, cloud, group, rules, fwPorts, publicIP, peering, prepVars, ret, calls>>

NextPrepare ==
    \/ PrepareForSubmarinerAws
    \/ CleanupAfterSubmarinerAws
    \/ PrepareForSubmarinerGcp
    \/ CleanupAfterSubmarinerGcp
    \/ PutRuleByHand

SpecPrepare == InitPrepare /\ [][NextPrepare]_vars

\* --------------------- PrepareForSubmariner with a gateway count (AWS)
\* The public subnets of the given set, from subnet z on, in the order of the
\* listing; n: the public subnets of the cluster.
RECURSIVE SubnetsIn(_, _, _)
SubnetsIn(z, n, S) ==
    IF z > n THEN <<>>
    ELSE IF z \in S THEN <<z>> \o SubnetsIn(z + 1, n, S)
    ELSE SubnetsIn(z + 1, n, S)

\* filterTaggedSubnets: the subnets that carry the gateway tag, and the others.
filterTaggedSubnets(tags) ==
    [tagged |-> SubnetsIn(1, Len(tags), {z \in DOMAIN tags : tags[z]}),
     untagged |-> SubnetsIn(1, Len(tags), {z \in DOMAIN tags : ~tags[z]})]

\* The loop of PrepareForSubmariner over the untagged subnets: it ends when a
\* gateway count is given and the tagged subnets are exactly that many;
\* otherwise the subnet is tagged and appended to the tagged ones.  k: the
\* CreateTags calls so far.
RECURSIVE TagSubnets(_, _, _, _, _, _)
TagSubnets(untagged, tagged, tags, G, fault, k) ==
    IF untagged = <<>> THEN [subnetTag |-> tags, tagged |-> tagged, ret |-> "nil", n |-> k]
    ELSE IF G > 0 /\ Len(tagged) = G THEN [subnetTag |-> tags, tagged |-> tagged, ret |-> "nil", n |-> k]
    ELSE IF fault = <<"tag", k + 1>> THEN [subnetTag |-> tags, tagged |-> tagged, ret |-> "error", n |-> k + 1]
    ELSE TagSubnets(Tail(untagged), Append(tagged, Head(untagged)),
                    [tags EXCEPT ![Head(untagged)] = TRUE], G, fault, k + 1)

\* The loop of PrepareForSubmariner over the tagged subnets: deployGateway
\* for each.  k: the machine set Deploy calls so far.
RECURSIVE DeployGateways(_, _, _, _)
DeployGateways(tagged, m, fault, k) ==
    IF tagged = <<>> THEN [ms |-> m, ret |-> "nil", n |-> k]
    ELSE IF fault = <<"deploy", k + 1>> THEN [ms |-> m, ret |-> "error", n |-> k + 1]
    ELSE DeployGateways(Tail(tagged), [m EXCEPT ![Head(tagged)] = 1], fault, k + 1)

\* awsCloud.PrepareForSubmariner with input.Gateways: the internal ports, the
\* gateway group, the public subnets (none, or fewer than the gateways asked
\* for, is an error), the tags, the gateway machine sets.
AwsPrepareForGateways(grp, fw, sg, tags, m, ports, G, fault) ==
    IF GetVpcID(fault) # "nil" THEN PrepResult(fw, sg, tags, m, {}, "error", NoCalls)
    ELSE IF ~grp THEN PrepResult(fw, sg, tags, m, {}, "notfound", NoCalls)
    ELSE LET a == AwsAllowPorts(1, ports, fw, fault, 0) IN
         IF a.ret # "nil" THEN PrepResult(a.fwPorts, sg, tags, m, {}, a.ret, [NoCalls EXCEPT !.sg = a.n])
         ELSE LET g == AwsCreateGatewaySG(sg, fault)
                  c == [NoCalls EXCEPT !.sg = a.n + g.n]
              IN IF g.ret # "nil" THEN PrepResult(a.fwPorts, g.extSG, tags, m, {}, g.ret, c)
                 ELSE IF fault = <<"subnets", 1>> THEN PrepResult(a.fwPorts, TRUE, tags, m, {}, "error", c)
                 ELSE IF Len(tags) = 0 THEN PrepResult(a.fwPorts, TRUE, tags, m, {}, "capacity", c)
                 ELSE IF G > 0 /\ Len(tags) < G THEN PrepResult(a.fwPorts, TRUE, tags, m, {}, "capacity", c)
                 ELSE LET f == filterTaggedSubnets(tags)
                          t == TagSubnets(f.untagged, f.tagged, tags, G, fault, 0) IN
                      IF t.ret # "nil"
                      THEN PrepResult(a.fwPorts, TRUE, t.subnetTag, m, {}, t.ret, [c EXCEPT !.label = t.n])
                      ELSE LET d == DeployGateways(t.tagged, m, fault, 0) IN
                           PrepResult(a.fwPorts, TRUE, t.subnetTag, d.ms, {}, d.ret,
                                      [c EXCEPT !.label = t.n, !.ms = d.n])

\* The loop of CleanupAfterSubmariner over the tagged subnets: deleteGateway,
\* then the tags are taken off.  k: the subnets done.
RECURSIVE CleanupTaggedSubnets(_, _, _, _, _)
CleanupTaggedSubnets(tagged, tags, m, fault, k) ==
    IF tagged = <<>> THEN [subnetTag |-> tags, ms |-> m, ret |-> "nil", n |-> k, u |-> k]
    ELSE LET d == MachineSetDelete(m, Head(tagged), DeleteFault(fault, "msdel", k + 1)) IN
         IF d.ret # "nil" THEN [subnetTag |-> tags, ms |-> m, ret |-> d.ret, n |-> k + 1, u |-> k]
         ELSE IF fault = <<"untag", k + 1>>
              THEN [subnetTag |-> tags, ms |-> d.ms, ret |-> "error", n |-> k + 1, u |-> k + 1]
         ELSE CleanupTaggedSubnets(Tail(tagged), [tags EXCEPT ![Head(tagged)] = FALSE], d.ms, fault, k + 1)

\* awsCloud.CleanupAfterSubmariner over every tagged public subnet.
AwsCleanupAfterGateways(grp, fw, sg, tags, m, fault) ==
    IF GetVpcID(fault) # "nil" \/ fault = <<"subnets", 1>> THEN PrepResult(fw, sg, tags, m, {}, "error", NoCalls)
    ELSE LET l == CleanupTaggedSubnets(filterTaggedSubnets(tags).tagged, tags, m, fault, 0)
             c == [NoCalls EXCEPT !.del = l.n, !.unlabel = l.u]
         IN IF l.ret # "nil" THEN PrepResult(fw, sg, l.subnetTag, l.ms, {}, l.ret, c)
            ELSE LET r == AwsRevokePortsInCluster(grp, fw, fault) IN
                 IF r.ret # "nil"
                 THEN PrepResult(r.fwPorts, sg, l.subnetTag, l.ms, {}, r.ret, [c EXCEPT !.del = l.n + r.n])
                 ELSE LET g == AwsDeleteGatewaySG(sg, DeleteFault(fault, "sgdel", 1)) IN
                      PrepResult(r.fwPorts, g.extSG, l.subnetTag, l.ms, {}, g.ret,
                                 [c EXCEPT !.del = l.n + r.n + g.n])

\* An AWS cluster with up to NumSubnets public subnets, some of them tagged
\* for a gateway and holding its machine set.
InitGateways ==
    /\ impl = "none"
    /\ label = [n \in Nodes |-> "none"]
    /\ master = [n \in Nodes |-> FALSE]
    /\ nodeTag = [n \in Nodes |-> FALSE]
    /\ portOpen = [n \in Nodes |-> FALSE]
    /\ skuZones = Zones
    /\ cloud = "aws"
    /\ group = TRUE
    /\ rules = UnmanagedRules
    /\ fwPorts = {}
    /\ extSG \in BOOLEAN
    /\ extRules = {}
    /\ peering = NoPeering
    /\ publicIP = [z \in Zones |-> FALSE]
    /\ \E n \in 0..NumSubnets : subnetTag \in [1..n -> BOOLEAN]
    /\ ms = [z \in DOMAIN subnetTag |-> IF subnetTag[z] THEN 1 ELSE 0]
    /\ pubRules = {}
    /\ before = NoBefore
    /\ race = NoRace
    /\ machineSets = {}
    /\ InitCall

AwsGatewaysFaults ==
    {NoFault, <<"vpc", 1>>, <<"sg", 1>>, <<"subnets", 1>>, <<"write", 1>>}
        \cup {<<"tag", i>> : i \in 1..MaxFaultIdx} \cup {<<"deploy", i>> : i \in 1..MaxFaultIdx}
AwsGatewaysCleanupFaults ==
    {NoFault, <<"vpc", 1>>, <<"subnets", 1>>, <<"sgdel", 1>>, <<"delete", 1>>}
        \cup {<<"msdel", i>> : i \in 1..MaxFaultIdx} \cup {<<"untag", i>> : i \in 1..MaxFaultIdx}

PrepareForGateways ==
    /\ cloud = "aws"
    /\ \E G \in 0..MaxGateways, fault \in AwsGatewaysFaults :
        LET ports == 1..1
            r == AwsPrepareForGateways(group, fwPorts, extSG, subnetTag, ms, ports, G, fault) IN
        ApplyPrepare(r, [PrepareOp("Prepare", ports, r.ret, fault) EXCEPT !.gateways = G], NoBefore)

CleanupAfterGateways ==
    /\ cloud = "aws"
    /\ \E fault \in AwsGatewaysCleanupFaults :
        LET r == AwsCleanupAfterGateways(group, fwPorts, extSG, subnetTag, ms, fault) IN
        ApplyPrepare(r, PrepareOp("Cleanup", {}, r.ret, fault), NoBefore)

NextGateways == PrepareForGateways \/ CleanupAfterGateways

SpecGateways == InitGateways /\ [][NextGateways]_vars

\* ------------------------------------ RHOS dedicated gateway machine sets
\* The name of the machine set that deployGWNodes deploys in pass i of its
\* loop: InfraID + "-submariner-gw" + strconv.Itoa(i).
gwNodeName(i) == <<"-submariner-gw", i>>

\* The machine sets that k passes of deployGWNodes leave on an empty cluster.
FirstMachineSets(k) == {gwNodeName(i) : i \in 0..(k - 1)}

\* ocpGatewayDeployer.deployGWNodes with deployGateway (RHOS, dedicated
\* nodes), from pass i on: nothing when there are more machine sets than
\* wanted; otherwise gatewayCount - numGatewayNodes passes, each of which
\* looks up the worker image when the deployer has none and has the machine
\* set of the pass's name created or updated.  k: Deploy calls so far.
RECURSIVE deployGWNodes(_, _, _, _, _, _, _)
deployGWNodes(i, gatewayCount, numGatewayNodes, sets, image, fault, k) ==
    IF numGatewayNodes > gatewayCount \/ i >= gatewayCount - numGatewayNodes
    THEN [machineSets |-> sets, ret |-> "nil", n |-> k]
    ELSE IF ~image /\ fault = <<"image", 1>> THEN [machineSets |-> sets, ret |-> "error", n |-> k]
    ELSE IF fault = <<"ms", k + 1>> THEN [machineSets |-> sets, ret |-> "error", n |-> k + 1]
    ELSE deployGWNodes(i + 1, gatewayCount, numGatewayNodes, sets \cup {gwNodeName(i)}, TRUE, fault, k + 1)

\* ocpGatewayDeployer.Deploy of the RHOS package (dedicated gateway nodes):
\* the security group, the list of the gateway machine sets, the count.
RhosDedicatedDeploy(sets, sg, D, image, fault) ==
    LET g == RhosCreateGWSecurityGroup(sg, fault)
        c0 == [NoCalls EXCEPT !.sg = g.n]
    IN IF fault = <<"client", 1>> THEN [machineSets |-> sets, extSG |-> sg, ret |-> "error", calls |-> NoCalls]
       ELSE IF g.ret # "nil" THEN [machineSets |-> sets, extSG |-> g.extSG, ret |-> "error", calls |-> c0]
       ELSE IF fault = <<"list", 1>> THEN [machineSets |-> sets, extSG |-> TRUE, ret |-> "error", calls |-> c0]
       ELSE IF D - Cardinality(sets) = 0 THEN [machineSets |-> sets, extSG |-> TRUE, ret |-> "nil", calls |-> c0]
       ELSE LET l == deployGWNodes(0, D, Cardinality(sets), sets, image, fault, 0) IN
            [machineSets |-> l.machineSets, extSG |-> TRUE, ret |-> l.ret, calls |-> [c0 EXCEPT !.ms = l.n]]

\* The loop of ocpGatewayDeployer.Cleanup (RHOS, dedicated gateway nodes) over
\* the machine sets listed, in the order of their names: the group's rules
\* are taken from the node, then the machine set is deleted by name.
RECURSIVE RhosCleanupLoop(_, _, _, _)
RhosCleanupLoop(i, sets, fault, k) ==
    IF i >= MaxGateways THEN [machineSets |-> sets, ret |-> "nil", n |-> k]
    ELSE IF gwNodeName(i) \notin sets THEN RhosCleanupLoop(i + 1, sets, fault, k)
    ELSE IF fault = <<"port", k + 1>> THEN [machineSets |-> sets, ret |-> "error", n |-> k]
    ELSE IF fault = <<"del", k + 1>> THEN [machineSets |-> sets, ret |-> "error", n |-> k + 1]
    ELSE RhosCleanupLoop(i + 1, sets \ {gwNodeName(i)}, fault, k + 1)

\* ocpGatewayDeployer.Cleanup of the RHOS package (dedicated gateway nodes).
RhosDedicatedCleanup(sets, sg, fault) ==
    IF fault \in {<<"client", 1>>, <<"list", 1>>}
    THEN [machineSets |-> sets, extSG |-> sg, ret |-> "error", calls |-> NoCalls]
    ELSE LET l == RhosCleanupLoop(0, sets, fault, 0)
             c == [NoCalls EXCEPT !.del = l.n] IN
         IF l.ret # "nil" THEN [machineSets |-> l.machineSets, extSG |-> sg, ret |-> "error", calls |-> c]
         ELSE IF fault = <<"sg", 1>> THEN [machineSets |-> l.machineSets, extSG |-> sg, ret |-> "error", calls |-> c]
         ELSE [machineSets |-> l.machineSets, extSG |-> FALSE, ret |-> "nil", calls |-> c]

\* An RHOS cluster with the gateway machine sets that earlier Deploy calls on
\* a cluster without any left behind.
InitRhosDedicated ==
    /\ impl = "rhosDedicated"
    /\ label = [n \in Nodes |-> "none"]
    /\ master = [n \in Nodes |-> FALSE]
    /\ nodeTag = [n \in Nodes |-> FALSE]
    /\ portOpen = [n \in Nodes |-> FALSE]
    /\ skuZones = Zones
    /\ cloud = "none"
    /\ group = TRUE
    /\ rules = {}
    /\ fwPorts = {}
    /\ extSG \in BOOLEAN
    /\ extRules = {}
    /\ ms = [z \in Zones |-> 0]
    /\ publicIP = [z \in Zones |-> FALSE]
    /\ peering = NoPeering
    /\ subnetTag = [z \in 1..NumZones |-> FALSE]
    /\ pubRules = {}
    /\ before = NoBefore
    /\ race = NoRace
    /\ \E k \in 0..MaxGateways : machineSets = FirstMachineSets(k)
    /\ InitCall

RhosDedicatedDeployFaults ==
    {NoFault, <<"client", 1>>, <<"sg", 1>>, <<"list", 1>>, <<"image", 1>>} \cup {<<"ms", i>> : i \in 1..MaxFaultIdx}

RhosDedicatedCleanupFaults ==
    {NoFault, <<"client", 1>>, <<"list", 1>>, <<"sg", 1>>} \cup
    {<<"port", i>> : i \in 1..MaxFaultIdx} \cup {<<"del", i>> : i \in 1..MaxFaultIdx}

\* The call o of the RHOS deployer with the outcome r.
ApplyRhosDedicated(r, o) ==
    /\ machineSets' = r.machineSets
    /\ extSG' = r.extSG
    /\ ret' = r.ret
    /\ calls' = r.calls
    /\ op' = o
    /\ tick' = 1 - tick
    /\ UNCHANGED <<impl, label, master, nodeTag, portOpen, ms, skuZones, portVars, subnetTag, pubRules, before, race>>

DeployRhosDedicated ==
    /\ impl = "rhosDedicated"
    /\ \E D \in 0..MaxGateways, image \in BOOLEAN, fault \in RhosDedicatedDeployFaults :
        LET r == RhosDedicatedDeploy(machineSets, extSG, D, image, fault) IN
        ApplyRhosDedicated(r, [name |-> "Deploy", gateways |-> D, ports |-> {}, target |-> 0,
                               faulty |-> r.ret = "error", fired |-> IF r.ret = "error" THEN fault ELSE NoFault])

CleanupRhosDedicated ==
    /\ impl = "rhosDedicated"
    /\ \E fault \in RhosDedicatedCleanupFaults :
        LET r == RhosDedicatedCleanup(machineSets, extSG, fault) IN
        ApplyRhosDedicated(r, [name |-> "Cleanup", gateways |-> 0, ports |-> {}, target |-> 0,
                               faulty |-> r.ret = "error", fired |-> IF r.ret = "error" THEN fault ELSE NoFault])

NextRhosDedicated == DeployRhosDedicated \/ CleanupRhosDedicated

SpecRhosDedicated == InitRhosDedicated /\ [][NextRhosDedicated]_vars

\* --------------------------------------- Deploy invocations side by side
\* The labels of node n: the gateway label and the other label it may carry.
NodeLabels(lbl, tag, n) == [gw |-> lbl[n], tag |-> tag[n]]

\* The mutation that AddGWLabelOnNode hands to updateLabel:
\* labels[submariner.io/gateway] = "true".
AddGWLabel(l) == [l EXCEPT !.gw = "true"]

\* k8sIface.updateLabel as it would be if it wrote the node back whether or
\* not the mutation changed it.
updateLabelAlways(exists, l, fail) ==
    IF ~exists THEN [labels |-> l, ret |-> "nil", updates |-> 0]
    ELSE IF fail THEN [labels |-> l, ret |-> "error", updates |-> 1]
    ELSE [labels |-> AddGWLabel(l), ret |-> "nil", updates |-> 1]

\* k8sIface.updateLabel for AddGWLabelOnNode (util.Update): the node is read; a
\* node that does not exist is no error and nothing is written; a node that
\* the mutation leaves as it is, is not written; otherwise one Update call,
\* which may fail.
updateLabel(exists, l, fail) ==
    IF ~exists THEN [labels |-> l, ret |-> "nil", updates |-> 0]
    ELSE IF AddGWLabel(l) = l THEN [labels |-> l, ret |-> "nil", updates |-> 0]
    ELSE IF fail THEN [labels |-> l, ret |-> "error", updates |-> 1]
    ELSE [labels |-> AddGWLabel(l), ret |-> "nil", updates |-> 1]

\* The nodes of S from node k on, in the order of the listing.
RECURSIVE Listing(_, _)
Listing(k, S) ==
    IF k > NumNodes THEN <<>>
    ELSE IF k \in S THEN <<k>> \o Listing(k + 1, S)
    ELSE Listing(k + 1, S)

\* The gateway nodes of the cluster: the nodes that exist and carry the label.
GatewayNodes(lbl, gone) == {n \in Nodes \ gone : lbl[n] = "true"}

\* One pass of the label loop of gatewayDeployer.Deploy as it would be if the
\* count of the gateways still to deploy were not decremented.
DeployLoopStepNoCount(list, delta, mst, lbl, tag, gone, fail) ==
    IF list = <<>> THEN [pc |-> "done", ret |-> "capacity", list |-> list, delta |-> delta,
                         labels |-> NodeLabels(lbl, tag, 1), node |-> 0, updates |-> 0]
    ELSE IF mst[Head(list)]
    THEN [pc |-> "loop", ret |-> "none", list |-> Tail(list), delta |-> delta,
          labels |-> NodeLabels(lbl, tag, Head(list)), node |-> 0, updates |-> 0]
    ELSE LET n == Head(list)
             u == updateLabel(n \notin gone, NodeLabels(lbl, tag, n), fail) IN
         IF u.ret # "nil"
         THEN [pc |-> "done", ret |-> "error", list |-> list, delta |-> delta,
               labels |-> u.labels, node |-> n, updates |-> u.updates]
         ELSE IF delta <= 0
         THEN [pc |-> "done", ret |-> "nil", list |-> Tail(list), delta |-> delta,
               labels |-> u.labels, node |-> n, updates |-> u.updates]
         ELSE [pc |-> "loop", ret |-> "none", list |-> Tail(list), delta |-> delta,
               labels |-> u.labels, node |-> n, updates |-> u.updates]

\* One pass of the label loop of gatewayDeployer.Deploy: the listing is
\* exhausted (insufficient worker nodes), a master node is skipped, or
\* AddGWLabelOnNode is called on the node and the count decremented.
DeployLoopStep(list, delta, mst, lbl, tag, gone, fail) ==
    IF list = <<>> THEN [pc |-> "done", ret |-> "capacity", list |-> list, delta |-> delta,
                         labels |-> NodeLabels(lbl, tag, 1), node |-> 0, updates |-> 0]
    ELSE IF mst[Head(list)]
    THEN [pc |-> "loop", ret |-> "none", list |-> Tail(list), delta |-> delta,
          labels |-> NodeLabels(lbl, tag, Head(list)), node |-> 0, updates |-> 0]
    ELSE LET n == Head(list)
             u == updateLabel(n \notin gone, NodeLabels(lbl, tag, n), fail) IN
         IF u.ret # "nil"
         THEN [pc |-> "done", ret |-> "error", list |-> list, delta |-> delta,
               labels |-> u.labels, node |-> n, updates |-> u.updates]
         ELSE IF delta - 1 <= 0
         THEN [pc |-> "done", ret |-> "nil", list |-> Tail(list), delta |-> delta - 1,
               labels |-> u.labels, node |-> n, updates |-> u.updates]
         ELSE [pc |-> "loop", ret |-> "none", list |-> Tail(list), delta |-> delta - 1,
               labels |-> u.labels, node |-> n, updates |-> u.updates]

\* A cluster on which two processes are about to call Deploy of the generic
\* deployer with the same desired count.
InitRace ==
    /\ impl = "generic"
    /\ label \in [Nodes -> {"none", "true"}]
    /\ \E k \in 0..1 : master = [n \in Nodes |-> n <= k]
    /\ \A n \in Nodes : master[n] => label[n] = "none"
    /\ \E b \in BOOLEAN : nodeTag = [n \in Nodes |-> b]
    /\ portOpen = [n \in Nodes |-> FALSE]
    /\ extSG = FALSE
    /\ ms = [z \in Zones |-> 0]
    /\ skuZones = Zones
    /\ cloud = "none"
    /\ group = TRUE
    /\ rules = {}
    /\ fwPorts = {}
    /\ extRules = {}
    /\ peering = NoPeering
    /\ publicIP = [z \in Zones |-> FALSE]
    /\ subnetTag = [z \in 1..NumZones |-> FALSE]
    /\ pubRules = {}
    /\ before = NoBefore
    /\ machineSets = {}
    /\ \E D \in 1..MaxGateways :
          race = [NoRace EXCEPT !.D = D, !.had = Cardinality(ListGatewayNodes(label))]
    /\ InitCall

\* The other invocation is under way.
OtherUnderWay(i) == \E j \in Procs \ {i} : race.pc[j] \notin {"idle", "done"}

\* The step o of process i that leaves the race record as r.
ApplyRace(i, o, r) ==
    /\ race' = [r EXCEPT !.overlap = @ \/ OtherUnderWay(i)]
    /\ op' = [name |-> o, gateways |-> race.D, ports |-> {}, target |-> i, faulty |-> FALSE, fired |-> NoFault]
    /\ tick' = 1 - tick
    /\ UNCHANGED <<impl, master, portOpen, extSG, ms, skuZones, ret, calls, portVars, subnetTag, pubRules, before, machineSets>>

\* gatewayDeployer.Deploy up to the count of the gateways to deploy:
\* ListGatewayNodes, and the return when the count is reached or exceeded.
RaceListGatewayNodes(i) ==
    /\ race.pc[i] = "idle"
    /\ LET delta == race.D - Cardinality(GatewayNodes(label, race.gone)) IN
       ApplyRace(i, "ListGatewayNodes",
                 IF delta <= 0
                 THEN [race EXCEPT !.pc[i] = "done", !.ret[i] = "nil", !.delta[i] = delta, !.node = 0, !.updates = 0]
                 ELSE [race EXCEPT !.pc[i] = "listNodes", !.delta[i] = delta, !.node = 0, !.updates = 0])
    /\ UNCHANGED <<label, nodeTag>>

\* gatewayDeployer.Deploy: ListNodesWithLabel("!submariner.io/gateway").
RaceListNodes(i) ==
    /\ race.pc[i] = "listNodes"
    /\ ApplyRace(i, "ListNodes",
                 [race EXCEPT !.pc[i] = "loop", !.node = 0, !.updates = 0,
                              !.list[i] = Listing(1, {n \in Nodes \ race.gone : label[n] = "none"})])
    /\ UNCHANGED <<label, nodeTag>>

\* gatewayDeployer.Deploy: one pass of the label loop.
RaceLoop(i) ==
    /\ race.pc[i] = "loop"
    /\ \E fail \in BOOLEAN :
        LET s == DeployLoopStep(race.list[i], race.delta[i], master, label, nodeTag, race.gone, fail) IN
        /\ ApplyRace(i, IF s.node = 0 THEN "NextNode" ELSE "AddGWLabelOnNode",
                     [race EXCEPT !.pc[i] = s.pc, !.ret[i] = s.ret, !.list[i] = s.list, !.delta[i] = s.delta,
                                  !.node = s.node, !.updates = s.updates])
        /\ label' = IF s.node = 0 THEN label ELSE [label EXCEPT ![s.node] = s.labels.gw]
        /\ nodeTag' = IF s.node = 0 THEN nodeTag ELSE [nodeTag EXCEPT ![s.node] = s.labels.tag]

\* Another actor deletes a node that is no gateway node; one node at most.
DeleteNode ==
    /\ race.gone = {}
    /\ \E n \in Nodes :
        /\ label[n] = "none"
        /\ race' = [race EXCEPT !.gone = {n}, !.node = 0, !.updates = 0]
    /\ op' = [name |-> "DeleteNode", gateways |-> 0, ports |-> {}, target |-> 0, faulty |-> FALSE, fired |-> NoFault]
    /\ tick' = 1 - tick
    /\ UNCHANGED <<deployVars, ret, calls, portVars, subnetTag, pubRules, before, machineSets>>

NextRace ==
    \/ \E i \in Procs : RaceListGatewayNodes(i)
    \/ \E i \in Procs : RaceListNodes(i)
    \/ \E i \in Procs : RaceLoop(i)
    \/ DeleteNode

SpecRace == InitRace /\ [][NextRace]_vars

\* ------------------------------------------------------------- properties
\* The gateway count that the Deploy of implementation i computes.
CurrentGateways(i, lbl, m, sku) ==
    CASE i = "gcp" -> Cardinality(ZonesWithSubmarinerGW(m, sku))
      [] i = "azureMS" -> SumMS(m, 1) + Cardinality(ListGatewayNodes(lbl))
      [] OTHER -> Cardinality(ListGatewayNodes(lbl))

\* The step is a call of Deploy.
DeployStep == op'.name = "Deploy" /\ tick' # tick

\* C1: across Deploy calls with arbitrary desired counts, failing ones
\* included, and no Cleanup between them, the number of resources that carry the
\* gateway marker (labelled nodes plus gateway machine sets) never decreases.
C1_MarkedNeverDecreases ==
    [][DeployStep => GwCount(label', ms') >= GwCount(label, ms)]_vars

\* A Deploy failed partway, after it had marked a node.
C1_Witness ==
    op.name = "Deploy" /\ ret = "error" /\ calls.label = 2 /\ GwCount(label, ms) >= 1

\* C2: when the desired count D is below the current count C, Deploy issues
\* no delete / unlabel call, every marked resource stays marked, and the call
\* returns success unless a provider call of it failed.
C2_DecreaseIsRejected ==
    [][(DeployStep /\ op'.gateways < CurrentGateways(impl, label, ms, skuZones)) =>
         /\ calls'.unlabel = 0
         /\ calls'.del = 0
         /\ \A n \in Nodes : label[n] = "true" => label'[n] = "true"
         /\ \A z \in Zones : ms'[z] >= ms[z]
         /\ ~op'.faulty => ret' = "nil"]_vars

\* A Deploy with a desired count below the current count returned success.
C2_Witness ==
    /\ op.name = "Deploy"
    /\ op.gateways < CurrentGateways(impl, label, ms, skuZones)
    /\ ret = "nil"

\* C3: a Deploy that repeats the request (one gateway or more) of a Deploy
\* which succeeded and reached the desired count issues no provider mutation call.
C3_RepeatedDeployIsNoOp ==
    [][(/\ op.name = "Deploy" /\ ret = "nil" /\ op.gateways >= 1
        /\ CurrentGateways(impl, label, ms, skuZones) = op.gateways
        /\ DeployStep /\ op'.gateways = op.gateways /\ ~op'.faulty) =>
         calls' = NoCalls]_vars

\* The worker nodes that a label-mode Deploy may still turn into gateways.
EligibleNodes(lbl, mst, tag) == {n \in Nodes : lbl[n] = "none" /\ ~mst[n] /\ ~tag[n]}

\* C4: in label mode, a Deploy that ends with fewer gateways than desired
\* and no eligible worker left returns a non-nil error.
C4_ExhaustedWorkersReturnError ==
    (/\ impl \in {"genericV1", "generic", "rhosLabel"}
     /\ op.name = "Deploy" /\ ~op.faulty
     /\ Cardinality(ListGatewayNodes(label)) < op.gateways
     /\ EligibleNodes(label, master, nodeTag) = {}) => ret = "capacity"

\* C5: in dedicated mode, a Deploy that ends with fewer gateways than
\* desired although no provider call failed (the eligible zones ran out)
\* returns the insufficient-zones error.
C5_ExhaustedZonesReturnError ==
    (/\ impl \in {"gcp", "azureDedicated", "azureMS"}
     /\ op.name = "Deploy" /\ ~op.faulty
     /\ GwCount(label, ms) < op.gateways) => ret = "capacity"

\* C6: in label mode on a cluster without gateways, a Deploy that needs
\* more gateways than there are eligible workers labels every eligible worker,
\* and issues exactly that many label calls.
C6_ExactlyEligibleAreTagged ==
    [][(/\ DeployStep /\ ~op'.faulty
        /\ impl \in {"generic", "azureTag"}
        /\ ListGatewayNodes(label) = {}
        /\ Cardinality(EligibleNodes(label, master, nodeTag)) < op'.gateways) =>
         /\ ListGatewayNodes(label') = EligibleNodes(label, master, nodeTag)
         /\ calls'.label = Cardinality(EligibleNodes(label, master, nodeTag))]_vars

\* C7: when a Deploy that failed is repeated with the same request and no
\* fault, and the repeat returns success with the desired count reached, every
\* gateway node has its per-node port / security group applied.
C7_RetryCompletesNodeConfig ==
    [][(/\ impl \in {"rhosLabel", "azureTag"}
        /\ op.name = "Deploy" /\ op.faulty
        /\ DeployStep /\ op'.gateways = op.gateways /\ ret' = "nil"
        /\ Cardinality(ListGatewayNodes(label')) = op'.gateways) =>
         \A n \in Nodes : label'[n] = "true" => portOpen'[n]]_vars

\* The step is a call of the port or delete handler called name.
PortStep(name) == op'.name = name /\ tick' # tick

\* C8: an OpenPorts that repeats the ports of an OpenPorts which succeeded
\* issues no create / insert / authorize / update call for the rule set.
C8_SecondOpenPortsIssuesNoWrite ==
    [][(/\ op.name = "OpenPorts" /\ ret = "nil"
        /\ PortStep("OpenPorts") /\ op'.ports = op.ports /\ ~op'.faulty) =>
         calls'.sg = 0]_vars

\* C9: ClosePorts on a cluster whose internal group exists and holds no
\* managed internal rule succeeds, unless a provider call of it fails.
C9_CloseWithoutOpenSucceeds ==
    [][(PortStep("ClosePorts") /\ fwPorts = {} /\ group /\ ~op'.faulty) =>
         ret' = "nil" /\ fwPorts' = {}]_vars

\* A ClosePorts found nothing to revoke and succeeded.
C9_Witness ==
    cloud = "aws" /\ op.name = "ClosePorts" /\ ret = "nil" /\ calls.del = 0 /\ fwPorts = {}

\* C10: deleting a firewall rule, a gateway security group, a machine set or
\* a public address that does not exist succeeds, unless the provider call
\* fails for another reason, and leaves it absent.
C10_DeleteOfAbsentSucceeds ==
    [][(/\ tick' # tick /\ ~op'.faulty
        /\ \/ op'.name = "ClosePorts" /\ cloud = "gcp" /\ fwPorts = {}
           \/ op'.name = "DeleteGatewaySG" /\ ~extSG
           \/ op'.name = "DeleteMachineSet" /\ ms[op'.target] = 0
           \/ op'.name = "DeletePublicIP" /\ ~publicIP[op'.target]) =>
         /\ ret' = "nil"
         /\ fwPorts' = fwPorts /\ extSG' = extSG /\ ms' = ms /\ publicIP' = publicIP]_vars

\* The deletion of a gateway security group that was not found succeeded
\* without a delete call.
C10_Witness ==
    op.name = "DeleteGatewaySG" /\ ret = "nil" /\ calls.del = 0 /\ ~extSG

\* A Cleanup call has returned.
CleanupStep == op'.name = "Cleanup" /\ tick' # tick

\* C11: a Cleanup call in which no provider call fails returns nil whatever
\* gateway resources were removed by hand before it, and leaves no machine set,
\* no external rule set, no gateway label, no interface that references the
\* rule set, and no public address of a machine set it found; it creates
\* nothing.  (An address whose machine set is gone is not visited.)
C11_CleanupToleratesMissing ==
    [][(CleanupStep /\ ~op'.faulty)
        => /\ ret' = "nil"
           /\ \A z \in Zones : ms'[z] = 0 /\ (ms[z] > 0 => ~publicIP'[z]) /\ (publicIP'[z] => publicIP[z])
           /\ ~extSG'
           /\ \A n \in Nodes : label'[n] = "none" /\ ~portOpen'[n]]_vars

\* A Cleanup succeeded that removed an existing resource and also met a
\* resource that was already gone.
C11_Witness ==
    op.name = "Cleanup" /\ ret = "nil" /\ calls.absent >= 1 /\ calls.del > calls.absent

\* The removal calls that a Cleanup issues when it visits every gateway
\* resource that exists: the rule set, every machine set (on Azure with its
\* address), every labelled node (on Azure with its interface and address).
CleanupWork(i, lbl, po, sg, m) ==
    CASE i = "gcp" -> 1 + Cardinality({z \in Zones : m[z] > 0})
      [] i = "azureMS" -> (IF sg THEN Cardinality({n \in Nodes : po[n]}) + 1 ELSE 0)
                            + 2 * Cardinality({z \in Zones : m[z] > 0})
                            + 2 * Cardinality(ListGatewayNodes(lbl))
      [] OTHER -> Cardinality({n \in Nodes : lbl[n] # "none"})

\* C12: when the removal of one gateway resource fails, Cleanup still issues
\* the removal call of every gateway resource that exists, and then returns
\* an error.
C12_CleanupAttemptsEveryResource ==
    [][(CleanupStep /\ op'.fired[1] \in {"fwdel", "msdel", "ipdel", "unlabel", "detach", "sgdel"})
        => /\ ret' = "error"
           /\ calls'.del + calls'.unlabel + calls'.port
                = CleanupWork(impl, label, portOpen, extSG, ms)]_vars

\* C13: reconciling (opening or removing) the internal rule set never removes
\* or alters a rule bearing the external marker that sits in the same rule
\* set, and reconciling (removing) the external rule set never removes a rule
\* bearing the internal marker that sits in the external rule set.
C13_ReconcileKeepsOtherMarker ==
    [][/\ (PortStep("OpenPorts") \/ PortStep("ClosePorts"))
            => ("external" \in rules => "external" \in rules') /\ extRules' = extRules
       /\ PortStep("DeleteGatewaySG")
            => ("internal" \in extRules => "internal" \in extRules') /\ rules' = rules /\ fwPorts' = fwPorts]_vars

\* C13 (amended): reconciling the internal rule set keeps every rule bearing
\* the external marker that sits in the same rule set and leaves the external
\* rule set alone; removing the external rule set leaves the internal rule set
\* alone (it deletes the external rule set with every rule in it).
C13_InternalReconcileKeepsExternal ==
    [][/\ (PortStep("OpenPorts") \/ PortStep("ClosePorts"))
            => /\ "external" \in rules => "external" \in rules'
               /\ extRules' = extRules /\ extSG' = extSG
       /\ PortStep("DeleteGatewaySG")
            => rules' = rules /\ fwPorts' = fwPorts /\ group' = group]_vars

\* The internal rules were written out of a rule set that also holds a rule
\* with the external prefix.
C13_Witness ==
    cloud = "azure" /\ op.name = "ClosePorts" /\ ret = "nil" /\ calls.sg = 1 /\ "external" \in rules

\* The create calls among the n rule-set writes of an OpenPorts call that met
\* the managed rules fw: AuthorizeSecurityGroupIngress creates a permission,
\* the Azure CreateOrUpdate creates the rules of the ports, and gcpCloud.openPorts
\* inserts the rule when its Get found none and updates it otherwise.
CreateCalls(c, fw, n) == IF c = "gcp" /\ fw # {} THEN 0 ELSE n

\* The rules that OpenPorts of the ports has to create: on AWS the three
\* permissions of each port, elsewhere the one rule that carries the ports.
MissingRules(c, fw, ports) ==
    IF c = "aws" THEN {k \in 1..(3 * NumPorts) : AwsRulePort(k) \in ports /\ k \notin fw}
    ELSE IF fw = {} THEN {0} ELSE {}

\* C14: get-before-create is never bypassed: an OpenPorts call issues a create
\* call only for a rule that its existence check found absent, so it issues no
\* more create calls than rules are missing.
C14_CreateOnlyWhatIsMissing ==
    [][PortStep("OpenPorts") =>
         CreateCalls(cloud, fwPorts, calls'.sg) <= Cardinality(MissingRules(cloud, fwPorts, op'.ports))]_vars

\* C15: a Deploy whose desired count equals the current gateway count reports
\* success and returns nil (unless a provider call of it failed) without
\* updating any node (no label is written) and without creating any gateway
\* resource (no machine set is deployed).  The Azure deployer's preparation of
\* the network interface of a node that was labelled by hand is no update of
\* the node.
C15_EqualCountIsNoOp ==
    [][(DeployStep /\ op'.gateways = CurrentGateways(impl, label, ms, skuZones) /\ ~op'.faulty) =>
         /\ ret' = "nil"
         /\ label' = label /\ ms' = ms
         /\ calls'.label = 0 /\ calls'.ms = 0]_vars

\* A Deploy for the count of gateways that exist already returned success
\* and wrote nothing.
C15_Witness ==
    /\ op.name = "Deploy" /\ op.gateways >= 1 /\ ret = "nil"
    /\ op.gateways = CurrentGateways(impl, label, ms, skuZones)
    /\ calls.label = 0 /\ calls.ms = 0

\* The deployers that place a dedicated machine set per gateway.
DedicatedImpls == {"gcp", "azureMS", "azureDedicated"}

\* C16: a Deploy of two gateways on a fresh cluster (no gateway, no external
\* rule set) with two eligible zones issues exactly one creation call for the
\* external rule set and exactly two creation calls for dedicated machine
\* sets, one per zone, and returns success unless a provider call of it failed.
C16_TwoGatewaysTwoZones ==
    [][(/\ DeployStep /\ impl \in DedicatedImpls /\ op'.gateways = 2 /\ ~op'.faulty
        /\ GwCount(label, ms) = 0 /\ ~extSG /\ Cardinality(skuZones) = 2) =>
         /\ ret' = "nil"
         /\ calls'.sg = 1 /\ extSG'
         /\ calls'.ms = 2
         /\ \A z \in skuZones : ms'[z] = 1]_vars

\* Two machine sets were deployed by one Deploy, after one creation of the
\* external rule set.
C16_Witness ==
    /\ op.name = "Deploy" /\ op.gateways = 2 /\ ret = "nil" /\ impl \in DedicatedImpls
    /\ calls.sg = 1 /\ calls.ms = 2 /\ \A z \in skuZones : ms[z] = 1

\* C17: a missing VPC is fatal: when the lookup of the cluster's VPC finds no
\* match, OpenPorts and ClosePorts (PrepareForSubmariner and
\* CleanupAfterSubmariner before them) return an error and issue no mutation
\* call; nothing is created or removed.
C17_MissingVpcIsFatal ==
    [][(tick' # tick /\ op'.name \in {"OpenPorts", "ClosePorts"} /\ op'.fired = <<"novpc", 1>>) =>
         /\ ret' = "error"
         /\ calls' = NoCalls
         /\ fwPorts' = fwPorts /\ rules' = rules /\ group' = group /\ extSG' = extSG]_vars

\* An OpenPorts on a cloud whose groups exist found no VPC and failed.
C17_Witness ==
    cloud = "aws" /\ group /\ op.name = "OpenPorts" /\ op.fired = <<"novpc", 1>> /\ ret = "error"

\* The gateway deployers and the port reconcilers side by side.
InitAll == Init \/ InitPorts
NextAll == Next \/ NextPorts
SpecAll == InitAll /\ [][NextAll]_vars

\* The calls c of a handler call in which the k-th call of a kind failed: that
\* call was the last of its kind, and no step that follows it in the handler
\* was taken (the rule set is ensured before any node or machine set is
\* touched, a node is labelled before its port is opened, and a deployer
\* either labels nodes or deploys machine sets).
AbortedAfter(f, c) ==
    CASE f[1] \in {"sg", "write"} -> c.sg = f[2] /\ c.label = 0 /\ c.port = 0 /\ c.ms = 0
      [] f[1] = "label" -> c.label = f[2] /\ c.port \in {0, f[2] - 1} /\ c.ms = 0
      [] f[1] = "port" -> c.port = f[2] /\ c.label \in {0, f[2]} /\ c.ms = 0
      [] f[1] = "ms" -> c.ms = f[2] /\ c.label = 0
      [] OTHER -> FALSE

\* C18: within one Deploy or OpenPorts call, the first step that returns an
\* error aborts the remaining steps of the call and the error is returned:
\* the failed call is the last call issued, no later node is labelled, no
\* later port is opened and no later machine set is deployed.
C18_FirstErrorAborts ==
    [][((DeployStep \/ PortStep("OpenPorts")) /\ op'.fired[1] \in {"sg", "write", "label", "port", "ms"}) =>
         /\ ret' = "error"
         /\ AbortedAfter(op'.fired, calls')
         /\ Cardinality({n \in Nodes : label'[n] # label[n]}) <= calls'.label - (IF op'.fired[1] = "label" THEN 1 ELSE 0)
         /\ Cardinality({n \in Nodes : portOpen'[n] # portOpen[n]}) <= calls'.port - (IF op'.fired[1] = "port" THEN 1 ELSE 0)
         /\ SumMS(ms', 1) - SumMS(ms, 1) <= calls'.ms - (IF op'.fired[1] = "ms" THEN 1 ELSE 0)
         /\ Cardinality(fwPorts' \ fwPorts) <= (IF op'.fired[1] = "write" THEN calls'.sg - 1 ELSE 0)]_vars

\* A Deploy failed at the label of its second node, after it had labelled
\* the first and before any further node was touched.
C18_Witness ==
    /\ op.name = "Deploy" /\ op.fired = <<"label", 2>> /\ ret = "error" /\ calls.label = 2
    /\ Cardinality(ListGatewayNodes(label)) = 1 /\ \E n \in Nodes : label[n] = "none" /\ ~master[n] /\ n > 2

\* The attempts that runWithRetries makes of an operation whose attempts
\* answer as plan says: up to the first success, all three when none succeeds.
AttemptsDue(plan) ==
    IF \E i \in 1..3 : plan[i] = 0 THEN CHOOSE i \in 1..3 : plan[i] = 0 /\ \A j \in 1..(i - 1) : plan[j] # 0
    ELSE 3

\* C19: when the acceptance of the peering (or the creation of its routes)
\* fails on every attempt, the retry helper makes exactly 3 attempts and
\* CreateVpcPeering returns an error; an attempt that succeeds is the last
\* attempt of its operation.
C19_ThreeAttemptsThenError ==
    (op.name = "CreateVpcPeering" /\ op.fired = NoFault) =>
        /\ Len(peering.accept) = AttemptsDue(peering.acceptPlan)
        /\ (\A i \in 1..3 : peering.acceptPlan[i] # 0) => ret = "error" /\ peering.routes = <<>>
        /\ (\E i \in 1..3 : peering.acceptPlan[i] = 0) =>
              /\ Len(peering.routes) = AttemptsDue(peering.routesPlan)
              /\ (\A i \in 1..3 : peering.routesPlan[i] # 0) => ret = "error"
              /\ (\E i \in 1..3 : peering.routesPlan[i] = 0) => ret = "nil"

\* The routes failed three times after the peering was accepted at the
\* second attempt.
C19_Witness ==
    /\ op.name = "CreateVpcPeering" /\ ret = "error"
    /\ Len(peering.accept) = 2 /\ Len(peering.routes) = 3 /\ peering.wrap = "routes"

\* C20: on the final failure of a retried operation the retry helper returns
\* the error of the last attempt as it is: not the error of an earlier
\* attempt, and nothing but what that attempt returned.
C20_LastErrorReturned ==
    (op.name = "CreateVpcPeering" /\ peering.wrap \in {"accept", "routes"}) =>
        LET made == IF peering.wrap = "accept" THEN peering.accept ELSE peering.routes
            plan == IF peering.wrap = "accept" THEN peering.acceptPlan ELSE peering.routesPlan
        IN /\ ret = "error"
           /\ peering.err # 0
           /\ peering.err = made[Len(made)]
           /\ peering.err = plan[3]

\* The acceptance failed three times with an error that changed between the
\* first and the last attempt.
C20_Witness ==
    /\ op.name = "CreateVpcPeering" /\ peering.wrap = "accept"
    /\ Len(peering.accept) = 3 /\ peering.accept[1] # peering.accept[3]

RoundTripStep == op.name = "Prepare" /\ ret = "nil" /\ before.seen /\ CleanupStep /\ ret' = "nil"

Addresses(c) == {x \in 0..(Pow2(CidrBits) - 1) : x \div Pow2(CidrBits - c[2]) = c[1] \div Pow2(CidrBits - c[2])}

\* C24: CreateVpcPeering between two VPCs whose CIDR blocks overlap returns
\* an error from the validation of the prerequisites, and no peering request,
\* acceptance or route creation was issued.
C24_OverlapIsRejectedFirst ==
    (op.name = "CreateVpcPeering" /\ Addresses(peering.srcCidr) \cap Addresses(peering.tgtCidr) # {})
        => /\ ret = "error" /\ peering.wrap = "validate"
           /\ peering.request = 0 /\ peering.accept = <<>> /\ peering.routes = <<>>

\* CreateVpcPeering was called, without any fault, for two VPCs whose blocks
\* differ while one lies within the other.
C24_Witness ==
    /\ op.name = "CreateVpcPeering" /\ op.fired = NoFault
    /\ peering.srcCidr[2] < peering.tgtCidr[2]
    /\ Addresses(peering.tgtCidr) \subseteq Addresses(peering.srcCidr)
    /\ peering.srcCidr[1] # peering.tgtCidr[1]
    /\ ret = "error"

\* C25: in label mode, a Deploy no provider call of which fails and that needs delta > 0 more
\* gateways while at least delta eligible workers exist labels exactly delta
\* further nodes and returns success, for every delta.
C25_LabelsExactlyDelta ==
    [][(/\ DeployStep /\ ~op'.faulty
        /\ impl \in LabelImpls
        /\ op'.gateways > Cardinality(ListGatewayNodes(label))
        /\ Cardinality(EligibleNodes(label, master, nodeTag)) >= op'.gateways - Cardinality(ListGatewayNodes(label)))
        => /\ ret' = "nil"
           /\ Cardinality(ListGatewayNodes(label') \ ListGatewayNodes(label))
                 = op'.gateways - Cardinality(ListGatewayNodes(label))]_vars

\* C26: in the AWS OpenPorts and ClosePorts the dry-run call is answered
\* before any real authorize or revoke call: when the answer is an error no
\* mutation is issued, UnauthorizedOperation comes back as the error "no
\* permission to ...", distinct from the error of any other failure, and
\* DryRunOperation counts as the permission granted.
C26_ProbeBeforeMutation ==
    [][(/\ PortStep("OpenPorts") \/ PortStep("ClosePorts")
        /\ cloud = "aws"
        /\ op'.fired[1] \in {"dryrun", "unauthorized", "validate"})
        => LET answer == ProbeAnswer(op'.fired) IN
           /\ answer = "UnauthorizedOperation" => ret' = "noPermission"
           /\ answer = "other" => ret' = "error"
           /\ answer # "DryRunOperation" => calls' = NoCalls /\ fwPorts' = fwPorts
           /\ answer = "DryRunOperation"
                 => /\ ret' = "nil"
                    /\ op'.name = "OpenPorts" => calls'.sg = 3 * Cardinality(op'.ports)
                    /\ op'.name = "ClosePorts" => fwPorts' = {}]_vars

\* An OpenPorts call whose dry-run call was answered UnauthorizedOperation
\* returned the permission error and left the open ports of an earlier call.
C26_Witness ==
    /\ cloud = "aws" /\ op.name = "OpenPorts" /\ op.fired = <<"unauthorized", 1>>
    /\ ret = "noPermission" /\ calls = NoCalls /\ fwPorts # {} /\ op.ports # {AwsRulePort(k) : k \in fwPorts}

\* C27: an existence lookup that fails (transport or authorization error) is
\* told apart from "not found": the call returns an error, and the failed
\* lookup sets off neither the creation of the resource in Deploy nor the
\* nothing-to-delete success of Cleanup.
C27_LookupFailureIsNotAbsence ==
    [][((DeployStep \/ CleanupStep) /\ op'.fired = <<"lookup", 1>>)
        => /\ ret' = "error"
           /\ calls'.sg = 0
           /\ (CleanupStep /\ extSG) => ~(ret' = "nil" /\ extSG')]_vars

\* C28: a Deploy whose desired count is lower than the current gateway count
\* issues no creation call of any kind: no external security group or firewall
\* rule is created or updated, no machine set is deployed, no node is labelled
\* and no gateway port is opened.
C28_ScaleDownCreatesNothing ==
    [][(DeployStep /\ op'.gateways < CurrentGateways(impl, label, ms, skuZones))
        => /\ calls'.sg = 0 /\ calls'.ms = 0 /\ calls'.label = 0 /\ calls'.port = 0
           /\ label' = label /\ ms' = ms /\ extSG' = extSG /\ portOpen' = portOpen]_vars

\* C29: ensuring the rule set is a presence check, not a diff: when a rule with
\* the managed prefix exists, OpenPorts returns nil, issues no create-or-update
\* call and leaves the rules as they are, even when the requested ports differ
\* from the rules present.
C29_PresenceCheckNotDiff ==
    [][(PortStep("OpenPorts") /\ fwPorts # {} /\ ~op'.faulty)
        => ret' = "nil" /\ calls'.sg = 0 /\ fwPorts' = fwPorts /\ rules' = rules]_vars

\* C29 (amended): on Azure ensuring the rule set is a presence check: when a
\* rule with the managed prefix exists, OpenPorts returns nil, issues no
\* create-or-update call and leaves the rules as they are, even when the
\* requested ports differ.  On GCP the rule found is replaced by the requested
\* rule in one update call.
C29_AzurePresenceCheckGcpUpdate ==
    [][(PortStep("OpenPorts") /\ fwPorts # {} /\ ~op'.faulty)
        => /\ cloud = "azure" => ret' = "nil" /\ calls'.sg = 0 /\ fwPorts' = fwPorts /\ rules' = rules
           /\ cloud = "gcp" => ret' = "nil" /\ calls'.sg = 1 /\ fwPorts' = op'.ports /\ rules' = rules]_vars

\* An Azure OpenPorts asked for ports other than those of the managed rules
\* present, and returned without a write.
C29_Witness ==
    /\ cloud = "azure" /\ op.name = "OpenPorts" /\ ret = "nil" /\ calls.sg = 0
    /\ fwPorts # {} /\ op.ports # fwPorts

\* C30: removing the managed rules keeps every rule that does not match the
\* managed prefix, a rule without a name included, unchanged in the rule list
\* written back, and issues exactly one replace call with the filtered list.
C30_RemovalKeepsUnmanagedRules ==
    [][(PortStep("ClosePorts") /\ cloud = "azure" /\ group /\ ~op'.faulty)
        => ret' = "nil" /\ calls'.sg = 1 /\ rules' = rules /\ fwPorts' = {}]_vars

\* C31: when the security group that would hold the managed rules does not
\* exist, removing the managed rules is a no-op that returns success: no
\* error, no replace call and no revoke call.
C31_RemovalWithoutGroupIsNoOp ==
    [][(PortStep("ClosePorts") /\ ~group /\ ~op'.faulty)
        => /\ ret' = "nil" /\ calls'.sg = 0 /\ calls'.del = 0
           /\ rules' = rules /\ fwPorts' = fwPorts]_vars

\* C32: the eligible zones computed for new dedicated gateways never contain
\* a zone that already hosts a gateway, so a scale-up never places a second
\* gateway in a zone that has one: a Deploy changes the machine sets only of
\* zones that held no gateway machine set and (where gateways are found by
\* their nodes) no gateway node.
C32_NoSecondGatewayInZone ==
    [][(DeployStep /\ impl \in DedicatedImpls)
        => \A z \in Zones :
             ms'[z] # ms[z]
               => /\ ms[z] = 0
                  /\ impl = "azureDedicated" => \A n \in ListGatewayNodes(label) : NodeZone(n) # z]_vars

\* C33: the creation of a VPC peering is strictly ordered: the peering is
\* requested only after the validation and both VPC lookups succeeded, the
\* acceptance is attempted only after the request succeeded, and the routes
\* are attempted only after an attempt of the acceptance succeeded; a stage
\* that fails ends the call with an error and no call of a later stage.
C33_PeeringStagesInOrder ==
    op.name = "CreateVpcPeering" =>
        /\ op.fired[1] \in {"validate", "srcVpc", "tgtVpc"} => peering.request = 0
        /\ op.fired[1] \in {"validate", "srcVpc", "tgtVpc", "request"}
             => ret = "error" /\ peering.accept = <<>> /\ peering.routes = <<>>
        /\ peering.accept # <<>> => peering.request = 1
        /\ peering.routes # <<>> => peering.accept # <<>> /\ peering.accept[Len(peering.accept)] = 0
        /\ (peering.accept # <<>> /\ peering.accept[Len(peering.accept)] # 0)
             => ret = "error" /\ peering.routes = <<>>

\* The acceptance failed on every attempt and no route was attempted, though
\* the first attempt to create the routes would have succeeded.
C33_Witness ==
    /\ op.name = "CreateVpcPeering" /\ ret = "error" /\ peering.request = 1
    /\ Len(peering.accept) = attempts /\ peering.routes = <<>> /\ peering.routesPlan[1] = 0

\* A CleanupVpcPeering call has returned.
PeeringCleanupStep == op'.name = "CleanupVpcPeering" /\ tick' # tick

\* C34: in the cleanup of a VPC peering the connection is deleted only after
\* both routes were deleted successfully; when the lookup does not return
\* exactly one matching connection, or the deletion of a route fails, an error
\* is returned and DeleteVpcPeeringConnection is not called.
C34_ConnectionDeletedAfterRoutes ==
    [][PeeringCleanupStep
        => /\ peering'.connDel >= 1
                => /\ peering'.routeDel = 2
                   /\ peering.srcRoute /\ peering.tgtRoute /\ ~peering'.srcRoute /\ ~peering'.tgtRoute
           /\ (peering.conns # 1 /\ op'.fired[1] \notin {"srcVpc", "tgtVpc"})
                => ret' = "error" /\ peering'.connDel = 0 /\ peering'.routeDel = 0 /\ peering'.conns = peering.conns
           /\ (peering'.routeDel >= 1 /\ (peering'.srcRoute \/ peering'.tgtRoute))
                => ret' = "error" /\ peering'.connDel = 0 /\ peering'.conns = peering.conns]_vars

\* The lookup returned two connections: the cleanup failed and deleted nothing.
C34_Witness ==
    /\ op.name = "CleanupVpcPeering" /\ ret = "error" /\ op.fired = NoFault
    /\ peering.conns = 2 /\ peering.srcRoute /\ peering.tgtRoute /\ peering.connDel = 0 /\ peering.routeDel = 0

\* C35: the deletion of the gateway security group retries only while the
\* provider answers DependencyViolation, for at most 30 attempts with a
\* growing delay between them: every attempt but the last was answered
\* DependencyViolation, any other answer ends the loop at once, and a
\* DependencyViolation that persists is returned as an error after the last
\* attempt, the group left in place.
C35_RetryOnlyOnDependencyViolation ==
    [][(PortStep("DeleteGatewaySG") /\ calls'.del >= 1)
        => /\ calls'.del <= DeleteRetrySteps
           /\ \A i \in 1..(calls'.del - 1) : DeleteAnswer(op'.fired, i) = "DependencyViolation"
           /\ DeleteAnswer(op'.fired, calls'.del) = "DependencyViolation"
                => calls'.del = DeleteRetrySteps /\ ret' = "error" /\ extSG'
           /\ DeleteAnswer(op'.fired, calls'.del) = "error" => ret' = "error" /\ extSG'
           /\ DeleteAnswer(op'.fired, calls'.del) = "nil" => ret' = "nil" /\ ~extSG'
           /\ \A i \in 1..(DeleteRetrySteps - 2) : BackoffDelay(i + 1) > BackoffDelay(i)]_vars

\* The provider answered DependencyViolation to every attempt: the deletion
\* gave up after the last attempt and returned the error.
C35_Witness ==
    /\ op.name = "DeleteGatewaySG" /\ op.fired = <<"dependency", DeleteRetrySteps>>
    /\ ret = "error" /\ calls.del = DeleteRetrySteps /\ extSG

\* Both Deploy invocations have returned.
BothReturned == \A i \in Procs : race.pc[i] = "done"

\* C36 as stated: after two Deploy invocations with the same desired count D
\* have both returned on a cluster that started with at most D gateway nodes,
\* at most D nodes carry the gateway label, however their list and label
\* steps were interleaved.
C36_ConcurrentDeploysStayWithinCount ==
    (BothReturned /\ race.had <= race.D) =>
        Cardinality(GatewayNodes(label, race.gone)) <= race.D

\* C36: after two Deploy invocations with the same desired count D have both
\* returned on a cluster that started with C <= D gateway nodes, at most D
\* nodes carry the gateway label when the invocations did not overlap, and at
\* most C + 2 * (D - C) when their list and label steps were interleaved.
C36_SerializedDeploysStayWithinCount ==
    (BothReturned /\ race.had <= race.D) =>
        /\ ~race.overlap => Cardinality(GatewayNodes(label, race.gone)) <= race.D
        /\ Cardinality(GatewayNodes(label, race.gone)) <= race.had + 2 * (race.D - race.had)

\* Two invocations that did not overlap have returned and the desired count
\* of gateway nodes, none of which was there before, is labelled.
C36_Witness ==
    /\ BothReturned
    /\ ~race.overlap
    /\ race.had = 0
    /\ race.D < NumNodes
    /\ \A i \in Procs : race.ret[i] = "nil"
    /\ Cardinality(GatewayNodes(label, race.gone)) = race.D

\* C37: whenever a Deploy invocation of the generic deployer returns success
\* for a desired count D > 0, at least D nodes that exist carry the gateway
\* label, even when a listed node was deleted before it was labelled.
C37_SuccessMeansCountReached ==
    [][\A i \in Procs :
          (race.pc[i] # "done" /\ race'.pc[i] = "done" /\ race'.ret[i] = "nil" /\ race.D > 0) =>
              Cardinality(GatewayNodes(label', race'.gone)) >= race.D]_vars

\* C38: on RHOS with dedicated gateway nodes, after Deploy succeeds with a
\* desired count D greater than the number C >= 1 of gateway machine sets,
\* exactly D gateway machine sets exist.
C38_NewMachineSetsDoNotCollide ==
    [][(/\ DeployStep /\ impl = "rhosDedicated" /\ ~op'.faulty /\ ret' = "nil"
        /\ Cardinality(machineSets) >= 1
        /\ op'.gateways > Cardinality(machineSets))
       => Cardinality(machineSets') = op'.gateways]_vars

\* The public subnets that carry the gateway tag.
TaggedSubnets(tags) == {z \in DOMAIN tags : tags[z]}

\* C39: AWS PrepareForSubmariner with a gateway count G > 0 leaves at most
\* max(G, T) public subnets with the gateway tag, T being the subnets tagged
\* before the call.
C39_NoSubnetTaggedBeyondCount ==
    [][(op'.name = "Prepare" /\ tick' # tick /\ op'.gateways > 0) =>
          LET T == Cardinality(TaggedSubnets(subnetTag))
              G == op'.gateways IN
          Cardinality(TaggedSubnets(subnetTag')) <= IF G > T THEN G ELSE T]_vars

\* C40: AddGWLabelOnNode on a node that carries the gateway label "true"
\* issues no node update and leaves the label as it is; in every case it
\* leaves the other labels of the node, and every other node, unchanged.
C40_LabelledNodeIsNotUpdated ==
    [][(op'.name = "AddGWLabelOnNode" /\ tick' # tick) =>
          LET n == race'.node IN
          /\ nodeTag' = nodeTag
          /\ \A m \in Nodes \ {n} : label'[m] = label[m]
          /\ (n \notin race.gone /\ label[n] = "true") => (race'.updates = 0 /\ label' = label)]_vars

\* AddGWLabelOnNode was called on a node that exists, carries another label
\* and had the gateway label already: no update was issued.
C40_Witness ==
    /\ op.name = "AddGWLabelOnNode"
    /\ race.node \in Nodes \ race.gone
    /\ race.updates = 0
    /\ label[race.node] = "true"
    /\ nodeTag[race.node]

====
